---- MODULE Spec2Model ----
(***************************************************************************)
(* Schema-graph analysis of supabase-viewer: the derived structures the    *)
(* views compute from one SchemaData snapshot and a search query.          *)
(*                                                                         *)
(* Strings are sequences of one-character strings, so that substring       *)
(* search, lower-casing, ordering and key concatenation are computed.      *)
(* null (a missing parentId) is the empty sequence: every table name the   *)
(* schema parser produces is a non-empty object key.                       *)
(***************************************************************************)
EXTENDS Integers, Sequences, FiniteSets, TLC

VARIABLES
    schema,             \* SchemaData: [tables, foreignKeys]
    searchQuery,        \* the search box content handed to every view
    view,               \* which view's analysis is being computed
    pc,                 \* position inside that view's useMemo body
    fkIdx,              \* index of the next foreign key of a forEach over schema.foreignKeys
    levels,             \* ProcessFlowView / TimelineView: levels built so far
    placed,             \* ProcessFlowView / TimelineView: the placed set
    parent,             \* SwimlaneView: union-find parent map
    lanes,              \* SwimlaneView: the returned lanes
    matrix,             \* CorrelationView: matrix[a][b]
    connectionDetails,  \* CorrelationView: key -> detail list
    parentMap,          \* HierarchyView: first-found parent of each source table
    treeData,           \* HierarchyView: [isNull, nodes]
    groups,             \* GroupedView: the returned groups
    tableStats,         \* CorrelationView: the connection ranking
    nodes,              \* NodeLinkView: the nodes of the memo, initial positions included
    links,              \* NodeLinkView: the links of the memo
    positions,          \* NodeLinkView: the published positions (React state)
    settled,            \* NodeLinkView: the settled flag (React state)
    animRef,            \* NodeLinkView: which simulation's frame animRef.current names, 0 if none pending
    sims,               \* NodeLinkView: the closures of the simulation effect still referenced
    effectDue,          \* NodeLinkView: nodes/links changed and the effect has not run yet
    selectedDrillTable, \* SchemaFlow: the table the drill view is centred on, or null
    initialNodes,       \* SchemaFlow: the nodes handed to getLayoutedElements
    initialEdges,       \* SchemaFlow: the edges handed to getLayoutedElements
    graph,              \* getLayoutedElements: the dagre graph g before dagre.layout(g)
    state,              \* useConnectionStore: the ConnectionState record
    pending             \* handlers of Index and of the store suspended at an await

vars == <<schema, searchQuery, view, pc, fkIdx, levels, placed, parent, lanes,
          matrix, connectionDetails, parentMap, treeData, groups, tableStats,
          nodes, links, positions, settled, animRef, sims, effectDue,
          selectedDrillTable, initialNodes, initialEdges, graph, state, pending>>

\* The state of the force simulation, and the state of the analysis memos.
forceVars == <<nodes, links, positions, settled, animRef, sims, effectDue>>

\* The state of SchemaFlow and the state of the connection store.
flowVars == <<selectedDrillTable, initialNodes, initialEdges, graph>>

storeVars == <<state, pending>>

memoVars == <<view, pc, fkIdx, levels, placed, parent, lanes, matrix, connectionDetails,
              parentMap, treeData, groups, tableStats>>

(***************************************************************************)
(* Bounds                                                                  *)
(***************************************************************************)
MaxFKs == 2

\* The most foreign keys of a schema handed to the force layout.
MaxLinks == 1

\* The most handlers of the connection store suspended at an await.
MaxPending == 2

\* The most tables of a schema whose initial placement is computed.
MaxTables == 8

(***************************************************************************)
(* Strings                                                                 *)
(***************************************************************************)
Range(s) == {s[i] : i \in DOMAIN s}

\* String.prototype.toLowerCase over the characters the inputs use.
toLowerCase(s) ==
    [i \in DOMAIN s |->
        CASE s[i] = "A" -> "a"
          [] s[i] = "B" -> "b"
          [] s[i] = "Z" -> "z"
          [] OTHER -> s[i]]

\* String.prototype.includes: q occurs in s as a contiguous substring.
includes(s, q) ==
    \E i \in 0..(Len(s) - Len(q)) : SubSeq(s, i + 1, i + Len(q)) = q

\* Collation rank of a character: punctuation before letters, a lower-case
\* letter before its upper-case form.
CharOrder == <<":", "_", "a", "A", "b", "B", "c", "d", "i", "o", "r", "t", "x", "y", "z", "Z">>

CharRank(c) == CHOOSE i \in DOMAIN CharOrder : CharOrder[i] = c

\* String.prototype.localeCompare: negative, zero or positive.
RECURSIVE localeCompare(_, _)
localeCompare(a, b) ==
    IF a = <<>> THEN (IF b = <<>> THEN 0 ELSE -1)
    ELSE IF b = <<>> THEN 1
    ELSE IF CharRank(Head(a)) < CharRank(Head(b)) THEN -1
    ELSE IF CharRank(Head(a)) > CharRank(Head(b)) THEN 1
    ELSE localeCompare(Tail(a), Tail(b))

(***************************************************************************)
(* Input: what parseOpenApiSpec can hand to the views                      *)
(***************************************************************************)
\* The tables a schema may hold, each with its columns.
Catalogue ==
    { [name |-> <<"a">>,           columns |-> << <<"x">>, <<"y">> >>],
      [name |-> <<"a", ":", "a">>, columns |-> << <<"b">>, <<"x">> >>],
      [name |-> <<"b">>,           columns |-> << <<"x">>, <<"y">> >>] }

TableNames == {t.name : t \in Catalogue}

\* tables.sort((a, b) => a.name.localeCompare(b.name))
SortedTables(S) ==
    CHOOSE s \in [1..Cardinality(S) -> S] :
        /\ \A i, j \in DOMAIN s : i < j => localeCompare(s[i].name, s[j].name) < 0

\* One ForeignKey per foreign-key column of a parsed table; the target is
\* whatever name the column description carries (a table of the schema,
\* the table itself, or a table the schema does not hold).
TargetNames == TableNames \union { <<"c">> }

ForeignKeysOf(ts) ==
    UNION { { [sourceTable |-> t.name, sourceColumn |-> c,
               targetTable |-> n, targetColumn |-> <<"i", "d">>] :
                  c \in Range(t.columns), n \in TargetNames } : t \in Range(ts) }

\* The order parseOpenApiSpec pushes foreign keys in: table by table, one
\* per (table, column).
ParsedOrder(fks) ==
    /\ \A i, j \in DOMAIN fks : i < j =>
           ~(fks[i].sourceTable = fks[j].sourceTable /\ fks[i].sourceColumn = fks[j].sourceColumn)
    /\ \A i, j, k \in DOMAIN fks : (i < j /\ j < k /\ fks[i].sourceTable = fks[k].sourceTable)
           => fks[j].sourceTable = fks[i].sourceTable

ForeignKeySeqs(ts) ==
    UNION { {fks \in [1..n -> ForeignKeysOf(ts)] : ParsedOrder(fks)} : n \in 0..MaxFKs }

parseOpenApiSpec ==
    UNION { { [tables |-> SortedTables(S), foreignKeys |-> fks] :
                 fks \in ForeignKeySeqs(SortedTables(S)) } : S \in SUBSET Catalogue }

Queries == { <<>>, <<"b">>, <<"z">> }

(***************************************************************************)
(* Search filter                                                           *)
(***************************************************************************)
\* !searchQuery || name includes query || some column name includes query
MatchesNameOrColumn(t, q) ==
    \/ q = <<>>
    \/ includes(toLowerCase(t.name), toLowerCase(q))
    \/ \E c \in Range(t.columns) : includes(toLowerCase(c), toLowerCase(q))

FilterTables(ts, q) ==
    LET keep(t) == MatchesNameOrColumn(t, q) IN SelectSeq(ts, keep)

Names(ts) == [i \in DOMAIN ts |-> ts[i].name]

NameSet(ts) == {ts[i].name : i \in DOMAIN ts}

(***************************************************************************)
(* Level Assignment: ProcessFlowView and TimelineView                      *)
(***************************************************************************)
LevelViews == {"ProcessFlow", "Timeline"}

\* The table list the level loop runs over: ProcessFlowView filters by the
\* search query, TimelineView takes schema.tables as it is.
LevelTables ==
    IF view = "Timeline" THEN schema.tables ELSE FilterTables(schema.tables, searchQuery)

\* deps[t.name] = new Set(); deps[fk.sourceTable].add(fk.targetTable), over
\* the foreign-key list fks.
DepsOf(ts, fks) ==
    [n \in NameSet(ts) |->
        {fks[i].targetTable : i \in {k \in DOMAIN fks : fks[k].sourceTable = n}}]

Deps(ts) == DepsOf(ts, schema.foreignKeys)

\* One pass of the while body: the placeable tables in table order, or, if
\* there are none, every table still unplaced.
LevelFromForceOne(ts, deps, pl) ==
    LET ready(n) == n \notin pl /\ (deps[n] \ pl) = {}
        unplaced(n) == n \notin pl
        level == SelectSeq(Names(ts), ready)
    IN  IF Len(level) = 0 THEN <<Head(SelectSeq(Names(ts), unplaced))>> ELSE level

LevelFromReversed(ts, deps, pl) ==
    LET ready(n) == n \notin pl /\ (deps[n] \ pl) = {}
        unplaced(n) == n \notin pl
        level == SelectSeq(Names(ts), ready)
        chosen == IF Len(level) = 0 THEN SelectSeq(Names(ts), unplaced) ELSE level
    IN  [k \in DOMAIN chosen |-> chosen[Len(chosen) + 1 - k]]

LevelFrom(ts, deps, pl) ==
    LET ready(n) == n \notin pl /\ (deps[n] \ pl) = {}
        unplaced(n) == n \notin pl
        level == SelectSeq(Names(ts), ready)
    IN  IF Len(level) = 0 THEN SelectSeq(Names(ts), unplaced) ELSE level

NextLevelNoFallback(ts, pl) ==
    LET ready(n) == n \notin pl /\ (Deps(ts)[n] \ pl) = {}
    IN  SelectSeq(Names(ts), ready)

NextLevel(ts, pl) == LevelFrom(ts, Deps(ts), pl)

\* while (placed.size < tables.length) { ...; levels.push(level); }
LevelStep ==
    /\ view \in LevelViews
    /\ pc = "levels"
    /\ Cardinality(placed) < Len(LevelTables)
    /\ LET level == NextLevel(LevelTables, placed)
       IN  /\ placed' = placed \union Range(level)
           /\ levels' = Append(levels, level)
    /\ UNCHANGED <<schema, searchQuery, view, pc, fkIdx, parent, lanes, matrix,
                   connectionDetails, parentMap, treeData>>
    /\ UNCHANGED <<groups, tableStats>>
    /\ UNCHANGED forceVars
    /\ UNCHANGED <<flowVars, storeVars>>

\* The loop condition fails: the memo returns.
LevelsReturn ==
    /\ view \in LevelViews
    /\ pc = "levels"
    /\ ~(Cardinality(placed) < Len(LevelTables))
    /\ pc' = "done"
    /\ UNCHANGED <<schema, searchQuery, view, fkIdx, levels, placed, parent, lanes,
                   matrix, connectionDetails, parentMap, treeData>>
    /\ UNCHANGED <<groups, tableStats>>
    /\ UNCHANGED forceVars
    /\ UNCHANGED <<flowVars, storeVars>>

(***************************************************************************)
(* Level Assignment: properties                                            *)
(***************************************************************************)
LevelNames == NameSet(LevelTables)

\* The index of the level a placed table is in.
LevelOf(n) == CHOOSE i \in DOMAIN levels : n \in Range(levels[i])

\* The directed foreign-key edges of the schema, and their transitive closure.
FkEdges == {<<schema.foreignKeys[i].sourceTable, schema.foreignKeys[i].targetTable>> :
               i \in DOMAIN schema.foreignKeys}

RECURSIVE Closure(_, _)
Closure(R, E) ==
    LET next == R \union {p \in {<<r[1], e[2]>> : r \in R, e \in E} :
                             \E r \in R, e \in E : r[2] = e[1] /\ p = <<r[1], e[2]>>}
    IN  IF next = R THEN R ELSE Closure(next, E)

Acyclic == \A p \in Closure(FkEdges, FkEdges) : p[1] # p[2]

\* C1: when the schema's foreign keys form no cycle, every filtered table
\* ends in a level strictly greater than the level of each filtered table
\* it is the source of a foreign key to.
C1_AcyclicLevelsStrict ==
    (view \in LevelViews /\ pc = "done" /\ Acyclic) =>
        \A i \in DOMAIN schema.foreignKeys :
            LET fk == schema.foreignKeys[i] IN
            (fk.sourceTable \in LevelNames /\ fk.targetTable \in LevelNames)
                => LevelOf(fk.sourceTable) > LevelOf(fk.targetTable)

\* C2: the level loop runs at most T iterations (T = number of filtered
\* tables, one level pushed per iteration), pushes no empty level, never
\* places a table twice, and on return every filtered table is in exactly
\* one level.
C2_LevelsTerminatePartition ==
    view \in LevelViews =>
        /\ Len(levels) <= Len(LevelTables)
        /\ (pc = "levels" /\ Len(levels) = Len(LevelTables))
               => ~(Cardinality(placed) < Len(LevelTables))
        /\ \A i \in DOMAIN levels :
               /\ Len(levels[i]) > 0
               /\ Range(levels[i]) \subseteq LevelNames
               /\ \A j, k \in DOMAIN levels[i] : j # k => levels[i][j] # levels[i][k]
        /\ \A i, j \in DOMAIN levels : i # j => Range(levels[i]) \cap Range(levels[j]) = {}
        /\ pc = "done" => \A n \in LevelNames : \E i \in DOMAIN levels : n \in Range(levels[i])

\* A run over three filtered tables that placed one table normally and then
\* had to force the two others (neither had its dependencies placed).
C2_Witness ==
    /\ view = "ProcessFlow"
    /\ pc = "done"
    /\ Len(LevelTables) = 3
    /\ Len(levels) = 2
    /\ Len(levels[2]) = 2
    /\ \A n \in Range(levels[2]) : (Deps(LevelTables)[n] \ Range(levels[1])) # {}

\* C12: the dependency set level assignment uses for a filtered table t holds
\* exactly the tables u other than t, in the filtered subset, that some
\* foreign key goes to from t.
C12_DepsAreFilteredTargets ==
    (view \in LevelViews /\ pc = "done") =>
        \A t \in LevelNames :
            Deps(LevelTables)[t] =
                {u \in LevelNames \ {t} : <<t, u>> \in FkEdges}

\* The whole level loop over a dependency map: the levels it returns.
RECURSIVE LevelsFrom(_, _, _, _)
LevelsFrom(ts, deps, pl, lv) ==
    IF Cardinality(pl) < Len(ts)
    THEN LET level == LevelFrom(ts, deps, pl)
         IN  LevelsFrom(ts, deps, pl \union Range(level), Append(lv, level))
    ELSE lv

\* A foreign-key list without its i-th element.
RemoveAt(fks, i) == SubSeq(fks, 1, i - 1) \o SubSeq(fks, i + 1, Len(fks))

\* The foreign keys with an end that is no table of the schema.
UnknownTableKeys ==
    {i \in DOMAIN schema.foreignKeys :
        \/ schema.foreignKeys[i].sourceTable \notin NameSet(schema.tables)
        \/ schema.foreignKeys[i].targetTable \notin NameSet(schema.tables)}

\* C13: a foreign key with an end that is no table of the schema changes
\* nothing: the levels returned are the levels the same input returns with
\* that foreign key removed.
C13_UnknownTableKeyIgnored ==
    (view \in LevelViews /\ pc = "done") =>
        \A i \in UnknownTableKeys :
            levels = LevelsFrom(LevelTables,
                                DepsOf(LevelTables, RemoveAt(schema.foreignKeys, i)), {}, <<>>)

\* The loop as a function returns what the stepwise loop returned.
LevelsFromAgrees ==
    (view \in LevelViews /\ pc = "done") =>
        levels = LevelsFrom(LevelTables, Deps(LevelTables), {}, <<>>)

\* The tables placed by the levels before level i.
PlacedBefore(i) == UNION {Range(levels[j]) : j \in 1..(i - 1)}

\* Level i was forced: when it was built no unplaced table had all its
\* dependencies placed.
Forced(i) ==
    \A n \in LevelNames \ PlacedBefore(i) :
        (Deps(LevelTables)[n] \ PlacedBefore(i)) # {}

\* C22: a level built when no unplaced table had all its dependencies placed
\* holds exactly the tables unplaced at that moment; it is the last level
\* (the loop ends after it), so at most one level is forced.
C22_ForcedLevelTakesAllAndIsLast ==
    view \in LevelViews =>
        \A i \in DOMAIN levels :
            Forced(i) =>
                /\ Range(levels[i]) = LevelNames \ PlacedBefore(i)
                /\ i = Len(levels)
                /\ ~(Cardinality(placed) < Len(LevelTables))

\* One table placed normally, then the two others, which reference each
\* other, forced together into the second and last level.
C22_Witness ==
    /\ view \in LevelViews
    /\ pc = "done"
    /\ Len(levels) = 2
    /\ ~Forced(1)
    /\ Forced(2)
    /\ Len(levels[2]) = 2
    /\ \A i \in DOMAIN schema.foreignKeys :
           /\ schema.foreignKeys[i].targetTable \in Range(levels[2])
           /\ schema.foreignKeys[i].targetTable # schema.foreignKeys[i].sourceTable

\* The position of a table in the list the level loop runs over.
LevelIndex(n) == CHOOSE i \in DOMAIN LevelTables : LevelTables[i].name = n

\* Tables A, B, C with B before C in the list and foreign keys B -> A, C -> A.
StarOfThree ==
    /\ Len(LevelTables) = 3
    /\ Len(schema.foreignKeys) = 2
    /\ schema.foreignKeys[1].targetTable = schema.foreignKeys[2].targetTable
    /\ schema.foreignKeys[1].targetTable \in LevelNames
    /\ schema.foreignKeys[1].sourceTable # schema.foreignKeys[1].targetTable
    /\ schema.foreignKeys[2].sourceTable # schema.foreignKeys[1].targetTable
    /\ schema.foreignKeys[1].sourceTable # schema.foreignKeys[2].sourceTable

\* C23: in every level, normal or forced, the tables stand in the order they
\* have in the table list; tables {A, B, C} with foreign keys B -> A and
\* C -> A give the levels [[A], [B, C]].
C23_LevelOrderIsTableOrder ==
    view \in LevelViews =>
        /\ \A i \in DOMAIN levels : \A j, k \in DOMAIN levels[i] :
               j < k => LevelIndex(levels[i][j]) < LevelIndex(levels[i][k])
        /\ (pc = "done" /\ StarOfThree) =>
               LET A == schema.foreignKeys[1].targetTable
                   others == LET notA(n) == n # A IN SelectSeq(Names(LevelTables), notA)
               IN  levels = << <<A>>, others >>

\* The star of three tables was levelled.
C23_Witness ==
    /\ view \in LevelViews
    /\ pc = "done"
    /\ StarOfThree
    /\ Len(levels) = 2
    /\ Len(levels[2]) = 2

\* A schema whose only level is forced and holds two tables.
C23_WitnessForced ==
    /\ view \in LevelViews
    /\ pc = "done"
    /\ Len(levels) = 1
    /\ Forced(1)
    /\ Len(levels[1]) = 2

(***************************************************************************)
(* Clustering Engine: SwimlaneView lanes                                   *)
(***************************************************************************)
\* Array.prototype.sort is stable: the position of element i is one more than
\* the number of elements the comparator puts before it, elements it ties
\* with keeping their order.
\* .sort((a, b) => b[1].length - a[1].length)
SortBySizeDesc(gs) ==
    LET before(j, i) == \/ Len(gs[j].tables) > Len(gs[i].tables)
                        \/ (Len(gs[j].tables) = Len(gs[i].tables) /\ j < i)
        pos(i) == 1 + Cardinality({j \in DOMAIN gs : before(j, i)})
    IN  [k \in DOMAIN gs |-> gs[CHOOSE i \in DOMAIN gs : pos(i) = k]]

\* members.sort((a, b) => a.name.localeCompare(b.name))
SortByName(names) ==
    LET before(j, i) == \/ localeCompare(names[j], names[i]) < 0
                        \/ (localeCompare(names[j], names[i]) = 0 /\ j < i)
        pos(i) == 1 + Cardinality({j \in DOMAIN names : before(j, i)})
    IN  [k \in DOMAIN names |-> names[CHOOSE i \in DOMAIN names : pos(i) = k]]

SwimlaneTables == FilterTables(schema.tables, searchQuery)

\* if (!parent[x]) parent[x] = x
Touch(par, x) ==
    IF x \in DOMAIN par THEN par
    ELSE [y \in DOMAIN par \union {x} |-> IF y = x THEN x ELSE par[y]]

RECURSIVE RootOf(_, _)
RootOf(par, x) == IF par[x] = x THEN x ELSE RootOf(par, par[x])

RECURSIVE PathOf(_, _)
PathOf(par, x) == IF par[x] = x THEN {} ELSE {x} \union PathOf(par, par[x])

\* find(x): the root of x, every table on the way re-pointed to the root.
find(par, x) ==
    LET p0 == Touch(par, x)
        r  == RootOf(p0, x)
    IN  [root |-> r,
         parent |-> [y \in DOMAIN p0 |-> IF y \in PathOf(p0, x) THEN r ELSE p0[y]]]

\* parent[find(a)] = find(b)
union(par, a, b) ==
    LET fa == find(par, a)
        fb == find(fa.parent, b)
    IN  [fb.parent EXCEPT ![fa.root] = fb.root]

\* The foreign keys the lanes are built from: both ends in the filtered list.
LaneEdgeSourceOnly(fk, ts) == fk.sourceTable \in NameSet(ts)

LaneEdge(fk, ts) == fk.sourceTable \in NameSet(ts) /\ fk.targetTable \in NameSet(ts)

\* tables.forEach(t => { const root = find(t.name); groups[root].push(t) }):
\* groups in the order their roots are first met.
RECURSIVE GroupByRoot(_, _, _, _)
GroupByRoot(par, ts, i, gs) ==
    IF i > Len(ts) THEN [parent |-> par, groups |-> gs]
    ELSE LET f == find(par, ts[i].name)
             at == {k \in DOMAIN gs : gs[k].id = f.root}
         IN  GroupByRoot(f.parent, ts, i + 1,
                 IF at = {}
                 THEN Append(gs, [id |-> f.root, tables |-> <<ts[i].name>>])
                 ELSE [k \in DOMAIN gs |->
                          IF k \in at
                          THEN [gs[k] EXCEPT !.tables = Append(@, ts[i].name)]
                          ELSE gs[k]])

\* Object.entries(groups).sort((a, b) => b[1].length - a[1].length), the
\* members of each lane sorted by name.
SortLanes(gs) ==
    LET sorted == SortBySizeDesc(gs)
    IN  [k \in DOMAIN sorted |->
            [id |-> sorted[k].id, tables |-> SortByName(sorted[k].tables)]]

\* tables.forEach(t => { parent[t.name] = t.name; })
InitParent(ts) == [n \in NameSet(ts) |-> n]

\* One foreign key of schema.foreignKeys.forEach in the lanes memo.
UnionStep ==
    /\ view = "Swimlane"
    /\ pc = "union"
    /\ fkIdx <= Len(schema.foreignKeys)
    /\ LET fk == schema.foreignKeys[fkIdx]
       IN  parent' = IF LaneEdge(fk, SwimlaneTables)
                     THEN union(parent, fk.sourceTable, fk.targetTable)
                     ELSE parent
    /\ fkIdx' = fkIdx + 1
    /\ UNCHANGED <<schema, searchQuery, view, pc, levels, placed, lanes, matrix,
                   connectionDetails, parentMap, treeData>>
    /\ UNCHANGED <<groups, tableStats>>
    /\ UNCHANGED forceVars
    /\ UNCHANGED <<flowVars, storeVars>>

\* The grouping pass and the sort: the memo returns the lanes.
LanesReturn ==
    /\ view = "Swimlane"
    /\ pc = "union"
    /\ fkIdx > Len(schema.foreignKeys)
    /\ LET g == GroupByRoot(parent, SwimlaneTables, 1, <<>>)
       IN  /\ parent' = g.parent
           /\ lanes' = SortLanes(g.groups)
    /\ pc' = "done"
    /\ UNCHANGED <<schema, searchQuery, view, fkIdx, levels, placed, matrix,
                   connectionDetails, parentMap, treeData>>
    /\ UNCHANGED <<groups, tableStats>>
    /\ UNCHANGED forceVars
    /\ UNCHANGED <<flowVars, storeVars>>

(***************************************************************************)
(* Clustering Engine: properties                                           *)
(***************************************************************************)
SwimlaneNames == NameSet(SwimlaneTables)

\* Undirected foreign-key edges between filtered tables, and the pairs of
\* filtered tables joined by a path of them.
FilteredEdges ==
    UNION { {<<schema.foreignKeys[i].sourceTable, schema.foreignKeys[i].targetTable>>,
             <<schema.foreignKeys[i].targetTable, schema.foreignKeys[i].sourceTable>>} :
            i \in {k \in DOMAIN schema.foreignKeys :
                      /\ schema.foreignKeys[k].sourceTable \in SwimlaneNames
                      /\ schema.foreignKeys[k].targetTable \in SwimlaneNames} }

Connected(a, b) ==
    <<a, b>> \in Closure({<<n, n>> : n \in SwimlaneNames} \union FilteredEdges, FilteredEdges)

LaneOf(n) == {k \in DOMAIN lanes : n \in Range(lanes[k].tables)}

\* C3: the lanes partition the filtered tables, and two filtered tables share
\* a lane exactly when a path of foreign keys through filtered tables joins
\* them (direction ignored).
C3_LanesAreComponents ==
    (view = "Swimlane" /\ pc = "done") =>
        /\ \A n \in SwimlaneNames : Cardinality(LaneOf(n)) = 1
        /\ \A k \in DOMAIN lanes :
               /\ Len(lanes[k].tables) > 0
               /\ Range(lanes[k].tables) \subseteq SwimlaneNames
               /\ \A i, j \in DOMAIN lanes[k].tables :
                      i # j => lanes[k].tables[i] # lanes[k].tables[j]
        /\ \A a, b \in SwimlaneNames : (LaneOf(a) = LaneOf(b)) <=> Connected(a, b)

\* Two filtered tables joined only through a table the query removed end in
\* different lanes, next to a lane of one.
C3_Witness ==
    /\ view = "Swimlane"
    /\ pc = "done"
    /\ Len(schema.tables) = 3
    /\ Len(SwimlaneTables) = 2
    /\ Len(lanes) = 2
    /\ \A i \in DOMAIN schema.foreignKeys :
           /\ schema.foreignKeys[i].sourceTable \in SwimlaneNames
           /\ schema.foreignKeys[i].targetTable \notin SwimlaneNames
    /\ Len(schema.foreignKeys) = 2
    /\ schema.foreignKeys[1].sourceTable # schema.foreignKeys[2].sourceTable
    /\ schema.foreignKeys[1].targetTable = schema.foreignKeys[2].targetTable

\* Three filtered tables chained by two foreign keys end in one lane.
C3_WitnessChain ==
    /\ view = "Swimlane"
    /\ pc = "done"
    /\ Len(SwimlaneTables) = 3
    /\ Len(lanes) = 1
    /\ Len(lanes[1].tables) = 3

(***************************************************************************)
(* Clustering Engine: GroupedView groups                                   *)
(***************************************************************************)
DigitChars == <<"0", "1", "2", "3", "4", "5", "6", "7", "8", "9">>

\* Number to decimal string, as a template literal renders it.
RECURSIVE NumberToString(_)
NumberToString(n) ==
    IF n < 10 THEN <<DigitChars[n + 1]>>
    ELSE NumberToString(n \div 10) \o <<DigitChars[(n % 10) + 1]>>

\* tables.length > 1 ? `${root} group (${tables.length} tables)` : root
GroupName(root, n) ==
    IF n > 1
    THEN root \o <<" ", "g", "r", "o", "u", "p", " ", "(">> \o NumberToString(n)
              \o <<" ", "t", "a", "b", "l", "e", "s", ")">>
    ELSE root

\* Object.entries(clusters).map(([root, tables]) => ({ name, tables })); the
\* root is kept next to the name it was turned into.
NameGroups(gs) ==
    [k \in DOMAIN gs |->
        [id |-> gs[k].id, name |-> GroupName(gs[k].id, Len(gs[k].tables)),
         tables |-> gs[k].tables]]

\* One foreign key of schema.foreignKeys.forEach in the groups memo: every
\* key is united, whatever its ends are.
GroupedUnionStep ==
    /\ view = "Grouped"
    /\ pc = "union"
    /\ fkIdx <= Len(schema.foreignKeys)
    /\ parent' = union(parent, schema.foreignKeys[fkIdx].sourceTable,
                               schema.foreignKeys[fkIdx].targetTable)
    /\ fkIdx' = fkIdx + 1
    /\ UNCHANGED <<schema, searchQuery, view, pc, levels, placed, lanes, matrix,
                   connectionDetails, parentMap, treeData, groups, tableStats>>
    /\ UNCHANGED forceVars
    /\ UNCHANGED <<flowVars, storeVars>>

\* The grouping pass over schema.tables, the naming and the sort: the memo
\* returns the groups.
GroupsReturn ==
    /\ view = "Grouped"
    /\ pc = "union"
    /\ fkIdx > Len(schema.foreignKeys)
    /\ LET g == GroupByRoot(parent, schema.tables, 1, <<>>)
       IN  /\ parent' = g.parent
           /\ groups' = SortBySizeDesc(NameGroups(g.groups))
    /\ pc' = "done"
    /\ UNCHANGED <<schema, searchQuery, view, fkIdx, levels, placed, lanes, matrix,
                   connectionDetails, parentMap, treeData, tableStats>>
    /\ UNCHANGED forceVars
    /\ UNCHANGED <<flowVars, storeVars>>

\* The table of the schema with a given name.
TableNamed(n) == CHOOSE t \in Range(schema.tables) : t.name = n

\* groups.map(g => ({...g, tables: g.tables.filter(...)})).filter(g => g.tables.length > 0)
filteredGroupsKeepEmpty ==
    LET keep(n) == MatchesNameOrColumn(TableNamed(n), searchQuery)
    IN  [k \in DOMAIN groups |-> [groups[k] EXCEPT !.tables = SelectSeq(@, keep)]]

filteredGroups ==
    LET keep(n) == MatchesNameOrColumn(TableNamed(n), searchQuery)
        nonEmpty(g) == Len(g.tables) > 0
    IN  SelectSeq([k \in DOMAIN groups |->
                      [groups[k] EXCEPT !.tables = SelectSeq(@, keep)]], nonEmpty)

(***************************************************************************)
(* Clustering Engine: StoryView chapters, and the lanes as a function      *)
(***************************************************************************)
\* adj[n]?.add(m): a Set keeps insertion order and no duplicate.
AddNeighbour(adj, n, m) ==
    IF n \in DOMAIN adj /\ m \notin Range(adj[n])
    THEN [adj EXCEPT ![n] = Append(@, m)]
    ELSE adj

\* schema.foreignKeys.forEach(fk => { adj[source]?.add(target); adj[target]?.add(source) })
RECURSIVE BuildAdjacency(_, _, _)
BuildAdjacency(adj, fks, i) ==
    IF i > Len(fks) THEN adj
    ELSE BuildAdjacency(
             AddNeighbour(AddNeighbour(adj, fks[i].sourceTable, fks[i].targetTable),
                          fks[i].targetTable, fks[i].sourceTable),
             fks, i + 1)

\* while (queue.length) { node = queue.shift(); cluster.push(node); ... }
RECURSIVE bfs(_, _, _, _)
bfs(adj, queue, visited, cluster) ==
    IF Len(queue) = 0 THEN [cluster |-> cluster, visited |-> visited]
    ELSE LET node == Head(queue)
             neighbours == IF node \in DOMAIN adj THEN adj[node] ELSE <<>>
             unvisited(m) == m \notin visited
             found == SelectSeq(neighbours, unvisited)
         IN  bfs(adj, Tail(queue) \o found, visited \union Range(found), Append(cluster, node))

\* schema.tables.forEach(t => { if (!visited.has(t.name)) clusters.push(bfs(t.name)); })
RECURSIVE StoryClusters(_, _, _, _, _)
StoryClusters(adj, ts, i, visited, clusters) ==
    IF i > Len(ts) THEN clusters
    ELSE IF ts[i].name \in visited THEN StoryClusters(adj, ts, i + 1, visited, clusters)
         ELSE LET b == bfs(adj, <<ts[i].name>>, visited \union {ts[i].name}, <<>>)
              IN  StoryClusters(adj, ts, i + 1, b.visited,
                                Append(clusters, [id |-> ts[i].name, tables |-> b.cluster]))

\* clusters.sort((a, b) => b.length - a.length), then for each cluster
\* tables = cluster.map(n => tableMap[n]).filter(Boolean); the title and the
\* narrative of a chapter are not followed.
Chapters(ts, fks) ==
    LET adj == BuildAdjacency([n \in NameSet(ts) |-> <<>>], fks, 1)
        sorted == SortBySizeDesc(StoryClusters(adj, ts, 1, {}, <<>>))
        isTable(n) == n \in NameSet(ts)
    IN  [k \in DOMAIN sorted |-> [sorted[k] EXCEPT !.tables = SelectSeq(@, isTable)]]

\* The unions of the lanes memo over the whole foreign-key list.
RECURSIVE UnionAll(_, _, _, _)
UnionAll(par, fks, ts, i) ==
    IF i > Len(fks) THEN par
    ELSE UnionAll(IF LaneEdge(fks[i], ts)
                  THEN union(par, fks[i].sourceTable, fks[i].targetTable)
                  ELSE par,
                  fks, ts, i + 1)

\* The lanes memo as a function of the table list and the foreign keys.
Lanes(ts, fks) ==
    SortLanes(GroupByRoot(UnionAll(InitParent(ts), fks, ts, 1), ts, 1, <<>>).groups)

(***************************************************************************)
(* Clustering Engine: agreement of the views                               *)
(***************************************************************************)
\* The function returns what the stepwise memo returned.
LanesAgrees ==
    (view = "Swimlane" /\ pc = "done") => lanes = Lanes(SwimlaneTables, schema.foreignKeys)

\* The sets of tables a list of clusters is made of.
Partition(gs) == {Range(gs[k].tables) : k \in DOMAIN gs}

\* C29: with an empty search query the groups of GroupedView, the lanes of
\* SwimlaneView and the chapters of StoryView split the tables of the schema
\* into the same clusters.
C29_ViewsAgreeOnClusters ==
    (view = "Grouped" /\ pc = "done" /\ searchQuery = <<>>) =>
        /\ Partition(groups) = Partition(Lanes(schema.tables, schema.foreignKeys))
        /\ Partition(groups) = Partition(Chapters(schema.tables, schema.foreignKeys))

\* Without a foreign key to a table the schema does not hold, the three
\* views agree.
ViewsAgreeOnKnownTables ==
    (view = "Grouped" /\ pc = "done" /\ searchQuery = <<>> /\ UnknownTableKeys = {}) =>
        /\ Partition(groups) = Partition(Lanes(schema.tables, schema.foreignKeys))
        /\ Partition(groups) = Partition(Chapters(schema.tables, schema.foreignKeys))

\* The lanes and the chapters agree on every schema.
LanesAndChaptersAgree ==
    (view = "Grouped" /\ pc = "done") =>
        Partition(Lanes(schema.tables, schema.foreignKeys))
            = Partition(Chapters(schema.tables, schema.foreignKeys))

(***************************************************************************)
(* Clustering Engine: presentation order                                   *)
(***************************************************************************)
\* Descending member count, equal counts in the lexical order of the ids.
OrderedBySizeThenId(gs) ==
    \A i, j \in DOMAIN gs : i < j =>
        \/ Len(gs[i].tables) > Len(gs[j].tables)
        \/ /\ Len(gs[i].tables) = Len(gs[j].tables)
           /\ localeCompare(gs[i].id, gs[j].id) < 0

\* C19: the returned clusters come in descending member count, clusters of
\* equal member count in the lexical order of their component ids.
C19_ClustersBySizeThenId ==
    (view = "Grouped" /\ pc = "done") => OrderedBySizeThenId(groups)

\* The same order for the lanes of SwimlaneView.
LanesBySizeThenId ==
    (view = "Swimlane" /\ pc = "done") => OrderedBySizeThenId(lanes)

(***************************************************************************)
(* Connection Matrix Builder: CorrelationView                              *)
(***************************************************************************)
\* !searchQuery || t.name.toLowerCase().includes(searchQuery.toLowerCase())
MatchesName(t, q) ==
    \/ q = <<>>
    \/ includes(toLowerCase(t.name), toLowerCase(q))

CorrelationTables ==
    LET keep(t) == MatchesName(t, searchQuery) IN SelectSeq(schema.tables, keep)

CorrelationNames == NameSet(CorrelationTables)

\* matrix[t.name][t2.name] = 0 for every pair of filtered tables
InitMatrix(ts) == [a \in NameSet(ts) |-> [b \in NameSet(ts) |-> 0]]

\* matrix[fk.sourceTable] && matrix[fk.sourceTable][fk.targetTable] !== undefined
MatrixEdge(fk, m) ==
    /\ fk.sourceTable \in DOMAIN m
    /\ fk.targetTable \in DOMAIN m[fk.sourceTable]

\* matrix[source][target]++; matrix[target][source]++
IncrementOneWay(m, fk) ==
    [m EXCEPT ![fk.sourceTable][fk.targetTable] = @ + 1]

IncrementTwice(m, fk) ==
    LET m1 == [m EXCEPT ![fk.sourceTable][fk.targetTable] = @ + 2]
    IN  [m1 EXCEPT ![fk.targetTable][fk.sourceTable] = @ + 2]

Increment(m, fk) ==
    LET m1 == [m EXCEPT ![fk.sourceTable][fk.targetTable] = @ + 1]
    IN  [m1 EXCEPT ![fk.targetTable][fk.sourceTable] = @ + 1]

\* `${a}:${b}`
DetailKey(a, b) == a \o <<":">> \o b

\* { from, to, via: `${fk.sourceColumn} -> ${fk.targetColumn}` }
Detail(fk) ==
    [from |-> fk.sourceTable, to |-> fk.targetTable,
     via |-> fk.sourceColumn \o <<" ", "->", " ">> \o fk.targetColumn]

\* connectionDetails[key] || []
DetailsAt(d, key) == IF key \in DOMAIN d THEN d[key] ELSE <<>>

\* connectionDetails[key] = [...(connectionDetails[key] || []), detail]
AppendDetail(d, key, detail) ==
    [k \in DOMAIN d \union {key} |->
        IF k = key THEN Append(DetailsAt(d, key), detail) ELSE d[k]]

\* The two appends of one foreign key, the second reading the first's result.
RecordDetail(d, fk) ==
    AppendDetail(AppendDetail(d, DetailKey(fk.sourceTable, fk.targetTable), Detail(fk)),
                 DetailKey(fk.targetTable, fk.sourceTable), Detail(fk))

\* One foreign key of schema.foreignKeys.forEach in the matrix memo.
MatrixStep ==
    /\ view = "Correlation"
    /\ pc = "matrix"
    /\ fkIdx <= Len(schema.foreignKeys)
    /\ LET fk == schema.foreignKeys[fkIdx]
       IN  IF MatrixEdge(fk, matrix)
           THEN /\ matrix' = Increment(matrix, fk)
                /\ connectionDetails' = RecordDetail(connectionDetails, fk)
           ELSE UNCHANGED <<matrix, connectionDetails>>
    /\ fkIdx' = fkIdx + 1
    /\ UNCHANGED <<schema, searchQuery, view, pc, levels, placed, parent, lanes,
                   parentMap, treeData>>
    /\ UNCHANGED <<groups, tableStats>>
    /\ UNCHANGED forceVars
    /\ UNCHANGED <<flowVars, storeVars>>

\* Every foreign key has been processed: the memo returns.
MatrixReturn ==
    /\ view = "Correlation"
    /\ pc = "matrix"
    /\ fkIdx > Len(schema.foreignKeys)
    /\ pc' = "stats"
    /\ UNCHANGED <<schema, searchQuery, view, fkIdx, levels, placed, parent, lanes,
                   matrix, connectionDetails, parentMap, treeData>>
    /\ UNCHANGED <<groups, tableStats>>
    /\ UNCHANGED forceVars
    /\ UNCHANGED <<flowVars, storeVars>>

\* Object.values(row): the cells of a matrix row in the order the row's keys
\* were created, which is the order of the filtered tables.
RowValues(m, ts, a) == [k \in DOMAIN ts |-> m[a][ts[k].name]]

\* .reduce((a, b) => a + b, 0)
RECURSIVE Sum(_)
Sum(values) == IF values = <<>> THEN 0 ELSE Head(values) + Sum(Tail(values))

\* .filter(v => v > 0).length
CountPositive(values) == Cardinality({k \in DOMAIN values : values[k] > 0})

\* .sort((a, b) => b.connections - a.connections)
SortByConnectionsTiesReversed(stats) ==
    LET before(j, i) == \/ stats[j].connections > stats[i].connections
                        \/ (stats[j].connections = stats[i].connections /\ j > i)
        pos(i) == 1 + Cardinality({j \in DOMAIN stats : before(j, i)})
    IN  [k \in DOMAIN stats |-> stats[CHOOSE i \in DOMAIN stats : pos(i) = k]]

SortByConnectionsDesc(stats) ==
    LET before(j, i) == \/ stats[j].connections > stats[i].connections
                        \/ (stats[j].connections = stats[i].connections /\ j < i)
        pos(i) == 1 + Cardinality({j \in DOMAIN stats : before(j, i)})
    IN  [k \in DOMAIN stats |-> stats[CHOOSE i \in DOMAIN stats : pos(i) = k]]

\* tables.map(t => ({ table: t, connections, connectedTo })).sort(...)
TableStats(ts, m) ==
    SortByConnectionsDesc(
        [k \in DOMAIN ts |->
            [table |-> ts[k].name,
             connections |-> Sum(RowValues(m, ts, ts[k].name)),
             connectedTo |-> CountPositive(RowValues(m, ts, ts[k].name))]])

\* The tableStats memo, computed from the returned matrix.
TableStatsReturn ==
    /\ view = "Correlation"
    /\ pc = "stats"
    /\ tableStats' = TableStats(CorrelationTables, matrix)
    /\ pc' = "done"
    /\ UNCHANGED <<schema, searchQuery, view, fkIdx, levels, placed, parent, lanes,
                   matrix, connectionDetails, parentMap, treeData, groups>>
    /\ UNCHANGED forceVars
    /\ UNCHANGED <<flowVars, storeVars>>

(***************************************************************************)
(* Connection Matrix Builder: properties                                   *)
(***************************************************************************)
\* Indices of the foreign keys among the first n that join a and b, in
\* either direction.
Joining(a, b, n) ==
    {i \in 1..n :
        \/ (schema.foreignKeys[i].sourceTable = a /\ schema.foreignKeys[i].targetTable = b)
        \/ (schema.foreignKeys[i].sourceTable = b /\ schema.foreignKeys[i].targetTable = a)}

\* Indices of the foreign keys with both ends in the filtered set.
InFilteredSet ==
    {i \in DOMAIN schema.foreignKeys :
        /\ schema.foreignKeys[i].sourceTable \in CorrelationNames
        /\ schema.foreignKeys[i].targetTable \in CorrelationNames}

\* The cells M[a][b] with a before b in the filtered table list.
UpperPairs ==
    {<<CorrelationTables[p[1]].name, CorrelationTables[p[2]].name>> :
        p \in {q \in (DOMAIN CorrelationTables) \X (DOMAIN CorrelationTables) : q[1] < q[2]}}

RECURSIVE SumCells(_, _)
SumCells(cells, m) ==
    IF cells = {} THEN 0
    ELSE LET c == CHOOSE x \in cells : TRUE
         IN  m[c[1]][c[2]] + SumCells(cells \ {c}, m)

\* C4: after all foreign keys are processed the diagonal of the matrix is 0
\* for every filtered table, self-referencing foreign keys included.
C4_DiagonalZero ==
    (view = "Correlation" /\ pc = "done") =>
        \A x \in CorrelationNames : matrix[x][x] = 0

\* C5 as claimed: the cells above the diagonal sum to the number of foreign
\* keys with both ends in the filtered set.
C5_UpperSumCountsFiltered ==
    (view = "Correlation" /\ pc = "done") =>
        SumCells(UpperPairs, matrix) = Cardinality(InFilteredSet)

\* C5 amended: the cells above the diagonal sum to the number of foreign keys
\* whose source and target are two different tables of the filtered set.
C5_UpperSumCountsDistinct ==
    (view = "Correlation" /\ pc = "done") =>
        SumCells(UpperPairs, matrix) =
            Cardinality({i \in InFilteredSet :
                schema.foreignKeys[i].sourceTable # schema.foreignKeys[i].targetTable})

\* A self-referencing foreign key and a foreign key between two different
\* filtered tables: the cells above the diagonal sum to 1.
C5_Witness ==
    /\ view = "Correlation"
    /\ pc = "done"
    /\ Len(CorrelationTables) = 3
    /\ Cardinality(InFilteredSet) = 2
    /\ schema.foreignKeys[1].sourceTable = schema.foreignKeys[1].targetTable
    /\ schema.foreignKeys[2].sourceTable # schema.foreignKeys[2].targetTable
    /\ SumCells(UpperPairs, matrix) = 1

\* C6: at every point of the loop the matrix is symmetric, and for two
\* different filtered tables both cells hold the number of foreign keys
\* processed so far that join them: each such key added one to each cell.
C6_SymmetricUnitIncrements ==
    (view = "Correlation") =>
        \A a, b \in CorrelationNames :
            /\ matrix[a][b] = matrix[b][a]
            /\ a # b => matrix[a][b] = Cardinality(Joining(a, b, fkIdx - 1))

\* Two foreign keys from one table to another: both cells are 2.
C6_Witness ==
    /\ view = "Correlation"
    /\ pc = "done"
    /\ \E a, b \in CorrelationNames :
           /\ a # b
           /\ Cardinality(Joining(a, b, Len(schema.foreignKeys))) = 2
           /\ schema.foreignKeys[1].sourceTable = schema.foreignKeys[2].sourceTable
           /\ matrix[a][b] = 2
           /\ matrix[b][a] = 2

\* The details of the foreign keys joining a and b, in input order.
RECURSIVE DetailsOf(_, _, _)
DetailsOf(a, b, i) ==
    IF i > Len(schema.foreignKeys) THEN <<>>
    ELSE IF i \in Joining(a, b, Len(schema.foreignKeys))
         THEN <<Detail(schema.foreignKeys[i])>> \o DetailsOf(a, b, i + 1)
         ELSE DetailsOf(a, b, i + 1)

\* C7: for every pair of filtered tables with M[a][b] > 0 the detail list
\* found under (a, b) holds exactly M[a][b] entries, one per joining foreign
\* key in input order, and is the list found under (b, a).
C7_DetailsMatchMatrix ==
    (view = "Correlation" /\ pc = "done") =>
        \A a, b \in CorrelationNames :
            matrix[a][b] > 0 =>
                /\ Len(DetailsAt(connectionDetails, DetailKey(a, b))) = matrix[a][b]
                /\ DetailsAt(connectionDetails, DetailKey(a, b)) = DetailsOf(a, b, 1)
                /\ DetailsAt(connectionDetails, DetailKey(a, b)) =
                       DetailsAt(connectionDetails, DetailKey(b, a))

\* C17: with a non-empty query the tables the matrix is built over are
\* exactly the tables whose name, or one of whose column names, contains the
\* query, case ignored.
C17_FilterByNameOrColumn ==
    (view = "Correlation" /\ pc = "done" /\ searchQuery # <<>>) =>
        DOMAIN matrix = NameSet(FilterTables(schema.tables, searchQuery))

\* The position of a table in the filtered table list.
FilteredIndex(n) == CHOOSE k \in DOMAIN CorrelationTables : CorrelationTables[k].name = n

\* The total of a table's matrix row.
RowTotal(n) == SumCells({<<n, b>> : b \in CorrelationNames}, matrix)

\* C20: the ranking lists every filtered table once with the total of its
\* matrix row, in descending total; tables of equal total come in the order
\* of the filtered table list.
C20_RankedByConnections ==
    (view = "Correlation" /\ pc = "done") =>
        /\ Len(tableStats) = Len(CorrelationTables)
        /\ {tableStats[k].table : k \in DOMAIN tableStats} = CorrelationNames
        /\ \A k \in DOMAIN tableStats :
               tableStats[k].connections = RowTotal(tableStats[k].table)
        /\ \A i, j \in DOMAIN tableStats : i < j =>
               \/ RowTotal(tableStats[i].table) > RowTotal(tableStats[j].table)
               \/ /\ RowTotal(tableStats[i].table) = RowTotal(tableStats[j].table)
                  /\ FilteredIndex(tableStats[i].table) < FilteredIndex(tableStats[j].table)

\* Three filtered tables, the first without connections, the two others with
\* one each: the two come first in table order, the first table last.
C20_Witness ==
    /\ view = "Correlation"
    /\ pc = "done"
    /\ Len(tableStats) = 3
    /\ tableStats[1].connections = 1
    /\ tableStats[2].connections = 1
    /\ tableStats[3].connections = 0
    /\ tableStats[3].table = CorrelationTables[1].name
    /\ FilteredIndex(tableStats[1].table) < FilteredIndex(tableStats[2].table)

(***************************************************************************)
(* Hierarchy Builder: HierarchyView treeData                               *)
(***************************************************************************)
Null == <<>>

virtualRoot == <<"_", "_", "r", "o", "o", "t", "_", "_">>

HierarchyTables == FilterTables(schema.tables, searchQuery)

\* if (!parentMap[fk.sourceTable]) parentMap[fk.sourceTable] = fk.targetTable
SetParentLast(pm, fk) ==
    [n \in DOMAIN pm \union {fk.sourceTable} |->
        IF n = fk.sourceTable THEN fk.targetTable ELSE pm[n]]

SetParent(pm, fk) ==
    IF fk.sourceTable \in DOMAIN pm THEN pm
    ELSE [n \in DOMAIN pm \union {fk.sourceTable} |->
             IF n = fk.sourceTable THEN fk.targetTable ELSE pm[n]]

\* const roots = tables.filter(t => !parentMap[t.name])
Roots(ts, pm) ==
    LET isRoot(t) == t.name \notin DOMAIN pm IN SelectSeq(ts, isRoot)

\* roots.length > 1
UseVirtualRootAlways(roots) == Len(roots) > 0

UseVirtualRoot(roots) == Len(roots) > 1

\* The nodes pushed before the table loop: the virtual root and its
\* children, or the single real root.
RootNodes(roots) ==
    IF UseVirtualRoot(roots)
    THEN <<[id |-> virtualRoot, parentId |-> Null, table |-> <<"S", "c", "h", "e", "m", "a">>]>>
         \o [i \in DOMAIN roots |->
                [id |-> roots[i].name, parentId |-> virtualRoot, table |-> roots[i].name]]
    ELSE IF Len(roots) = 1
         THEN <<[id |-> roots[1].name, parentId |-> Null, table |-> roots[1].name]>>
         ELSE <<>>

\* roots.length > 1 ? virtualRoot : roots[0]?.name || null
FallbackParentNull(roots) == Null

FallbackParent(roots) ==
    IF UseVirtualRoot(roots) THEN virtualRoot
    ELSE IF Len(roots) > 0 THEN roots[1].name ELSE Null

\* tables.forEach(t => { if (nodes.find(n => n.id === t.name)) return; ... })
RECURSIVE AddTableNodes(_, _, _, _, _)
AddTableNodes(ns, ts, pm, roots, i) ==
    IF i > Len(ts) THEN ns
    ELSE LET t == ts[i] IN
         IF \E k \in DOMAIN ns : ns[k].id = t.name
         THEN AddTableNodes(ns, ts, pm, roots, i + 1)
         ELSE IF t.name \in DOMAIN pm /\ pm[t.name] \in NameSet(ts)
              THEN AddTableNodes(
                       Append(ns, [id |-> t.name, parentId |-> pm[t.name], table |-> t.name]),
                       ts, pm, roots, i + 1)
              ELSE AddTableNodes(
                       Append(ns, [id |-> t.name, parentId |-> FallbackParent(roots),
                                   table |-> t.name]),
                       ts, pm, roots, i + 1)

\* if (roots.length === 0 && tables.length > 0) return null; ... return nodes
BuildTreeData(ts, pm) ==
    LET roots == Roots(ts, pm) IN
    IF Len(roots) = 0 /\ Len(ts) > 0
    THEN [isNull |-> TRUE, nodes |-> <<>>]
    ELSE [isNull |-> FALSE, nodes |-> AddTableNodes(RootNodes(roots), ts, pm, roots, 1)]

\* One foreign key of schema.foreignKeys.forEach in the treeData memo.
ParentMapStep ==
    /\ view = "Hierarchy"
    /\ pc = "parentMap"
    /\ fkIdx <= Len(schema.foreignKeys)
    /\ parentMap' = SetParent(parentMap, schema.foreignKeys[fkIdx])
    /\ fkIdx' = fkIdx + 1
    /\ UNCHANGED <<schema, searchQuery, view, pc, levels, placed, parent, lanes,
                   matrix, connectionDetails, treeData>>
    /\ UNCHANGED <<groups, tableStats>>
    /\ UNCHANGED forceVars
    /\ UNCHANGED <<flowVars, storeVars>>

\* Roots, the null return or the node list: the memo returns.
TreeDataReturn ==
    /\ view = "Hierarchy"
    /\ pc = "parentMap"
    /\ fkIdx > Len(schema.foreignKeys)
    /\ treeData' = BuildTreeData(HierarchyTables, parentMap)
    /\ pc' = "done"
    /\ UNCHANGED <<schema, searchQuery, view, fkIdx, levels, placed, parent, lanes,
                   matrix, connectionDetails, parentMap>>
    /\ UNCHANGED <<groups, tableStats>>
    /\ UNCHANGED forceVars
    /\ UNCHANGED <<flowVars, storeVars>>

(***************************************************************************)
(* Hierarchy Builder: properties                                           *)
(***************************************************************************)
HierarchyNames == NameSet(HierarchyTables)

\* The filtered tables that are the source of no foreign key.
RootCandidates ==
    {n \in HierarchyNames :
        \A i \in DOMAIN schema.foreignKeys : schema.foreignKeys[i].sourceTable # n}

Returned == view = "Hierarchy" /\ pc = "done"

NodeList == treeData.nodes

Parentless == {k \in DOMAIN NodeList : NodeList[k].parentId = Null}

\* The child-to-parent links of the node list, by id.
ParentLinks ==
    {<<NodeList[k].id, NodeList[k].parentId>> : k \in DOMAIN NodeList \ Parentless}

\* C8: a returned node list is a rooted tree: one parentless node, every
\* other parent a node of the list, and every node reaches the parentless
\* node by parent links without ever meeting itself.
C8_NodeListIsRootedTree ==
    (Returned /\ ~treeData.isNull) =>
        /\ Cardinality(Parentless) = 1
        /\ \A k \in DOMAIN NodeList \ Parentless :
               \E j \in DOMAIN NodeList : NodeList[j].id = NodeList[k].parentId
        /\ \A p \in Closure(ParentLinks, ParentLinks) : p[1] # p[2]
        /\ \A k \in DOMAIN NodeList \ Parentless : \A r \in Parentless :
               <<NodeList[k].id, NodeList[r].id>> \in Closure(ParentLinks, ParentLinks)

\* C9: with two or more root candidates there is one virtual root, it has no
\* parent and every root candidate is its child; with exactly one root
\* candidate that table is the only parentless node and no node is the
\* virtual root.
C9_RootRule ==
    (Returned /\ ~treeData.isNull) =>
        /\ Cardinality(RootCandidates) >= 2 =>
               /\ Cardinality({k \in DOMAIN NodeList : NodeList[k].id = virtualRoot}) = 1
               /\ \A k \in DOMAIN NodeList :
                      NodeList[k].id = virtualRoot => NodeList[k].parentId = Null
               /\ \A c \in RootCandidates :
                      \E k \in DOMAIN NodeList :
                          NodeList[k].id = c /\ NodeList[k].parentId = virtualRoot
        /\ Cardinality(RootCandidates) = 1 =>
               /\ Cardinality(Parentless) = 1
               /\ \A k \in Parentless : NodeList[k].id \in RootCandidates
               /\ \A k \in DOMAIN NodeList : NodeList[k].id # virtualRoot

\* Tables {A, B, C} with B -> A and C -> B: A, then B under A, then C under B.
C9_Witness ==
    /\ Returned
    /\ ~treeData.isNull
    /\ searchQuery = <<>>
    /\ Len(schema.foreignKeys) = 2
    /\ Len(NodeList) = 3
    /\ NodeList[1].parentId = Null
    /\ NodeList[2].parentId = NodeList[1].id
    /\ NodeList[3].parentId = NodeList[2].id

\* Two tables and no foreign key: a virtual root with the two as children.
C9_WitnessVirtualRoot ==
    /\ Returned
    /\ ~treeData.isNull
    /\ Len(schema.foreignKeys) = 0
    /\ Len(NodeList) = 3
    /\ NodeList[1].id = virtualRoot
    /\ NodeList[2].parentId = virtualRoot
    /\ NodeList[3].parentId = virtualRoot

\* C10: with no filtered table, or with every filtered table the source of
\* some foreign key, the builder returns the unavailable signal (null), not
\* a node list.
C10_DegenerateIsNull ==
    Returned =>
        ((HierarchyNames = {} \/ RootCandidates = {}) => treeData.isNull)

\* The first foreign key of schema.foreignKeys whose source is n.
FirstForeignKey(n) ==
    schema.foreignKeys[CHOOSE i \in DOMAIN schema.foreignKeys :
        /\ schema.foreignKeys[i].sourceTable = n
        /\ \A j \in 1..(i - 1) : schema.foreignKeys[j].sourceTable # n]

\* The filtered tables whose first foreign key points outside the filtered set.
Reparented ==
    {n \in HierarchyNames \ RootCandidates :
        FirstForeignKey(n).targetTable \notin HierarchyNames}

\* C11: in a returned node list every filtered table is the id of exactly one
\* node, and a filtered table whose first foreign key targets a table outside
\* the filtered set has the root as its parent: the virtual root when there
\* are several root candidates, the single root candidate otherwise.
C11_ReparentedToRoot ==
    (Returned /\ ~treeData.isNull) =>
        /\ \A n \in HierarchyNames :
               Cardinality({k \in DOMAIN NodeList : NodeList[k].id = n}) = 1
        /\ \A n \in Reparented : \A k \in DOMAIN NodeList :
               NodeList[k].id = n =>
                   /\ Cardinality(RootCandidates) >= 2 => NodeList[k].parentId = virtualRoot
                   /\ Cardinality(RootCandidates) = 1 => NodeList[k].parentId \in RootCandidates

\* Two root candidates and a third table whose only foreign key targets a
\* table the schema does not hold: the third table hangs under the virtual root.
C11_Witness ==
    /\ Returned
    /\ ~treeData.isNull
    /\ Cardinality(RootCandidates) = 2
    /\ Cardinality(Reparented) = 1
    /\ Len(NodeList) = 4
    /\ \A k \in DOMAIN NodeList : NodeList[k].id \in Reparented => NodeList[k].parentId = virtualRoot

\* One root candidate and a table whose first foreign key targets a table the
\* query removed: the table hangs under the root candidate.
C11_WitnessRealRoot ==
    /\ Returned
    /\ ~treeData.isNull
    /\ Cardinality(RootCandidates) = 1
    /\ Cardinality(Reparented) = 1
    /\ Len(NodeList) = 2
    /\ \A n \in Reparented : FirstForeignKey(n).targetTable \in NameSet(schema.tables)
    /\ \A k \in DOMAIN NodeList : NodeList[k].id \in Reparented => NodeList[k].parentId \in RootCandidates

\* The filtered tables with two foreign keys that go to different tables.
TwoTargets ==
    {n \in HierarchyNames :
        \E i, j \in DOMAIN schema.foreignKeys :
            /\ i < j
            /\ schema.foreignKeys[i].sourceTable = n
            /\ schema.foreignKeys[j].sourceTable = n
            /\ schema.foreignKeys[i].targetTable # schema.foreignKeys[j].targetTable}

\* C24: a filtered table whose first foreign key, in input order, targets a
\* filtered table p has p as its parent in the returned node list; while the
\* foreign keys are read, an entry of parentMap is the target of the source's
\* first foreign key and no later foreign key changes it.
C24_FirstFoundParent ==
    view = "Hierarchy" =>
        /\ \A n \in DOMAIN parentMap : parentMap[n] = FirstForeignKey(n).targetTable
        /\ (Returned /\ ~treeData.isNull) =>
               \A n \in HierarchyNames \ RootCandidates :
                   FirstForeignKey(n).targetTable \in HierarchyNames =>
                       \A k \in DOMAIN NodeList :
                           NodeList[k].id = n =>
                               NodeList[k].parentId = FirstForeignKey(n).targetTable

\* A table with two foreign keys to two different filtered tables hangs
\* under the target of the first.
C24_Witness ==
    /\ Returned
    /\ ~treeData.isNull
    /\ \E n \in TwoTargets :
           /\ \A i \in DOMAIN schema.foreignKeys :
                  schema.foreignKeys[i].targetTable \in HierarchyNames \ {n}
           /\ \E k \in DOMAIN NodeList :
                  /\ NodeList[k].id = n
                  /\ NodeList[k].parentId = schema.foreignKeys[1].targetTable

(***************************************************************************)
(* Force-Directed Layout Engine: NodeLinkView                              *)
(*                                                                         *)
(* Coordinates, velocities and forces are fixed-point numbers with two     *)
(* decimals (1 unit = 100); every division truncates toward zero.          *)
(***************************************************************************)
maxIterations == 150

Fixed(n) == n * 100

Quot(a, b) == IF a >= 0 THEN a \div b ELSE -((-a) \div b)

Max(a, b) == IF a >= b THEN a ELSE b

\* Math.sqrt, rounded down.
RECURSIVE SqrtBetween(_, _, _)
SqrtBetween(n, lo, hi) ==
    IF lo = hi THEN lo
    ELSE LET mid == (lo + hi + 1) \div 2
         IN  IF mid * mid <= n THEN SqrtBetween(n, mid, hi) ELSE SqrtBetween(n, lo, mid - 1)

Sqrt(n) == SqrtBetween(n, 0, 46340)

NodeLinkTables == FilterTables(schema.tables, searchQuery)

\* connCount[t.name] = 0, then ++ for the source and for the target of every
\* foreign key, when that end is a filtered table.
connCount(ts, fks) ==
    [n \in NameSet(ts) |->
        Cardinality({k \in DOMAIN fks : fks[k].sourceTable = n})
      + Cardinality({k \in DOMAIN fks : fks[k].targetTable = n})]

\* [...tables].sort((a, b) => (connCount[b.name] || 0) - (connCount[a.name] || 0))
SortByConnCountDesc(ts, cc) ==
    LET before(j, i) == \/ cc[ts[j].name] > cc[ts[i].name]
                        \/ (cc[ts[j].name] = cc[ts[i].name] /\ j < i)
        pos(i) == 1 + Cardinality({j \in DOMAIN ts : before(j, i)})
    IN  [k \in DOMAIN ts |-> ts[CHOOSE i \in DOMAIN ts : pos(i) = k]]

\* Math.cos and Math.sin at the multiples of 30 degrees, times 100000
\* (cos 30 = 0.86603); the argument counts steps of 30 degrees.
CosTable ==
    <<100000, 86603, 50000, 0, -50000, -86603, -100000, -86603, -50000, 0, 50000, 86603>>

Cos(steps) == CosTable[(steps % 12) + 1]

Sin(steps) == Cos(steps + 9)

\* Division rounded to the nearest integer.
RoundDiv(a, b) ==
    IF a >= 0 THEN (2 * a + b) \div (2 * b) ELSE -((2 * (-a) + b) \div (2 * b))

\* The place of the i-th sorted table, i counted from 0: the origin, then
\*   ring = Math.ceil(i / 6), posInRing = (i - 1) % (ring * 6),
\*   angle = (posInRing / (ring * 6)) * 2 PI - PI / 2, radius = ring * 280.
\* On the first two rings (i <= 12) the angle is a multiple of 30 degrees.
InitialPosition(i) ==
    IF i = 0 THEN [x |-> 0, y |-> 0]
    ELSE LET ring == (i + 5) \div 6
             posInRing == (i - 1) % (ring * 6)
             angle == (posInRing * 12) \div (ring * 6) + 9
             radius == ring * 280
         IN  [x |-> RoundDiv(Cos(angle) * radius, 1000),
              y |-> RoundDiv(Sin(angle) * radius, 1000)]

\* const nodes = sorted.map((table, i) => ({ id, x, y, vx: 0, vy: 0, connections }))
Nodes(ts, fks) ==
    LET cc == connCount(ts, fks)
        sorted == SortByConnCountDesc(ts, cc)
    IN  [k \in DOMAIN sorted |->
            [id |-> sorted[k].name,
             x |-> InitialPosition(k - 1).x, y |-> InitialPosition(k - 1).y,
             vx |-> 0, vy |-> 0, connections |-> cc[sorted[k].name]]]

\* schema.foreignKeys.filter(both ends in tableSet).map(fk => ({ source, target }))
Links(ts, fks) ==
    LET inSet(fk) == fk.sourceTable \in NameSet(ts) /\ fk.targetTable \in NameSet(ts)
        kept == SelectSeq(fks, inSet)
    IN  [k \in DOMAIN kept |-> [source |-> kept[k].sourceTable, target |-> kept[k].targetTable]]

\* Math.max(Math.sqrt(dx * dx + dy * dy), 1)
Distance(dx, dy) == Max(Sqrt(dx * dx + dy * dy), Fixed(1))

\* force = 10000 / (dist * dist); fx = (dx / dist) * force
RepulsionForce(dx, dy) ==
    LET dist == Distance(dx, dy)
        force == Quot(1000000000, Quot(dist * dist, 10))
    IN  [fx |-> Quot(dx * force, dist), fy |-> Quot(dy * force, dist)]

\* force = (dist - 250) * 0.012; fx = (dx / dist) * force
SpringForce(dx, dy) ==
    LET dist == Distance(dx, dy)
        force == Quot((dist - Fixed(250)) * 12, 1000)
    IN  [fx |-> Quot(dx * force, dist), fy |-> Quot(dy * force, dist)]

\* One pair of the repulsion loop: ns[i].vx -= fx; ns[j].vx += fx (and vy).
ApplyRepulsionMoving(ns, i, j) ==
    LET f == RepulsionForce(ns[j].x - ns[i].x, ns[j].y - ns[i].y)
    IN  [ns EXCEPT ![i].vx = @ - f.fx, ![i].vy = @ - f.fy,
                   ![i].x = @ - f.fx, ![i].y = @ - f.fy,
                   ![j].vx = @ + f.fx, ![j].vy = @ + f.fy]

ApplyRepulsion(ns, i, j) ==
    LET f == RepulsionForce(ns[j].x - ns[i].x, ns[j].y - ns[i].y)
    IN  [ns EXCEPT ![i].vx = @ - f.fx, ![i].vy = @ - f.fy,
                   ![j].vx = @ + f.fx, ![j].vy = @ + f.fy]

\* for (i = 0; i < ns.length; i++) for (j = i + 1; j < ns.length; j++) ...
RECURSIVE Repulsion(_, _, _)
Repulsion(ns, i, j) ==
    IF i > Len(ns) THEN ns
    ELSE IF j > Len(ns) THEN Repulsion(ns, i + 1, i + 2)
    ELSE Repulsion(ApplyRepulsion(ns, i, j), i, j + 1)

\* nodeMap[id]: the index of the node with that id, 0 if there is none.
NodeIndex(ns, id) ==
    IF \E k \in DOMAIN ns : ns[k].id = id
    THEN CHOOSE k \in DOMAIN ns : ns[k].id = id
    ELSE 0

\* One link: s.vx += fx; s.vy += fy; t.vx -= fx; t.vy -= fy, s and t being
\* the same object when the link joins a table to itself.
ApplyLink(ns, l) ==
    LET s == NodeIndex(ns, l.source)
        t == NodeIndex(ns, l.target)
    IN  IF s = 0 \/ t = 0 THEN ns
        ELSE LET f == SpringForce(ns[t].x - ns[s].x, ns[t].y - ns[s].y)
                 n1 == [ns EXCEPT ![s].vx = @ + f.fx, ![s].vy = @ + f.fy]
             IN  [n1 EXCEPT ![t].vx = @ - f.fx, ![t].vy = @ - f.fy]

\* links.forEach(l => ...)
RECURSIVE Attraction(_, _, _)
Attraction(ns, ls, k) ==
    IF k > Len(ls) THEN ns ELSE Attraction(ApplyLink(ns, ls[k]), ls, k + 1)

\* ns.forEach(n => { n.vx -= n.x * 0.001; n.vy -= n.y * 0.001; })
Centering(ns) ==
    [k \in DOMAIN ns |->
        [ns[k] EXCEPT !.vx = @ - Quot(ns[k].x, 1000), !.vy = @ - Quot(ns[k].y, 1000)]]

\* ns.forEach(n => { n.vx *= damping; n.vy *= damping; n.x += n.vx; n.y += n.vy; })
Integrate(ns) ==
    [k \in DOMAIN ns |->
        LET vx == Quot(ns[k].vx * 82, 100)
            vy == Quot(ns[k].vy * 82, 100)
        IN  [ns[k] EXCEPT !.vx = vx, !.vy = vy, !.x = @ + vx, !.y = @ + vy]]

\* The forces and the integration of one simulate() call.
SimulateStep(ns, ls) == Integrate(Centering(Attraction(Repulsion(ns, 1, 2), ls, 1)))

\* pos[n.id] = { x: n.x, y: n.y }
Positions(ns) ==
    [id \in {ns[k].id : k \in DOMAIN ns} |->
        LET k == NodeIndex(ns, id) IN [x |-> ns[k].x, y |-> ns[k].y]]

\* iteration++
NextIterationByTwo(it) == it + 2

NextIteration(it) == it + 1

\* cancelAnimationFrame(animRef.current): the pending callback the handle
\* names, if any, is removed from the browser's list.
cancelNoFrame(ss, ref) == ss

cancelAnimationFrame(ss, ref) ==
    IF ref = 0 THEN ss ELSE [ss EXCEPT ![ref].frame = FALSE]

\* A closure stays referenced while its effect is the current one or a
\* callback of it is pending.
Referenced(c) == ~c.cleanedUp \/ c.frame

Collect(ss) == SelectSeq(ss, Referenced)

\* The index in Collect(ss) of the closure at index ref of ss.
Reindex(ss, ref) ==
    IF ref = 0 \/ ~Referenced(ss[ref]) THEN 0
    ELSE Cardinality({k \in 1..ref : Referenced(ss[k])})

\* The simulation effect runs for new nodes and links: the previous effect's
\* cleanup, then setSettled(false), a fresh nodeMap, iteration = 0 and the
\* first requestAnimationFrame(simulate).
RunEffect ==
    /\ view = "NodeLink"
    /\ effectDue
    /\ LET cancelled == cancelAnimationFrame(sims, animRef)
           cleaned == [k \in DOMAIN cancelled |-> [cancelled[k] EXCEPT !.cleanedUp = TRUE]]
           fresh == [nodeMap |-> nodes, links |-> links, iteration |-> 0, steps |-> 0,
                     frame |-> TRUE, cleanedUp |-> FALSE, afterCancel |-> animRef # 0]
       IN  /\ sims' = Append(Collect(cleaned), fresh)
           /\ animRef' = Len(Collect(cleaned)) + 1
    /\ settled' = FALSE
    /\ effectDue' = FALSE
    /\ UNCHANGED <<schema, searchQuery, nodes, links, positions>>
    /\ UNCHANGED memoVars
    /\ UNCHANGED <<flowVars, storeVars>>

\* The browser runs a pending simulate callback.
Frame(i) ==
    /\ view = "NodeLink"
    /\ sims[i].frame
    /\ LET c == sims[i] IN
       IF c.iteration >= maxIterations
       THEN LET after == [sims EXCEPT ![i].frame = FALSE]
            IN  /\ settled' = TRUE
                /\ sims' = Collect(after)
                /\ animRef' = Reindex(after, IF animRef = i THEN 0 ELSE animRef)
                /\ UNCHANGED positions
       ELSE LET it == NextIteration(c.iteration)
                moved == SimulateStep(c.nodeMap, c.links)
                again == it < maxIterations
                after == [sims EXCEPT ![i] = [c EXCEPT !.iteration = it, !.steps = @ + 1,
                                                      !.nodeMap = moved, !.frame = again]]
            IN  /\ positions' = Positions(moved)
                /\ settled' = (IF again THEN settled ELSE TRUE)
                /\ sims' = Collect(after)
                /\ animRef' = Reindex(after, IF again THEN i
                                             ELSE IF animRef = i THEN 0 ELSE animRef)
    /\ UNCHANGED <<schema, searchQuery, nodes, links, effectDue>>
    /\ UNCHANGED memoVars
    /\ UNCHANGED <<flowVars, storeVars>>

\* The search box changes: the memo recomputes nodes and links, and the
\* effect is due again.
SetSearchQuery(q) ==
    /\ view = "NodeLink"
    /\ q # searchQuery
    /\ searchQuery' = q
    /\ nodes' = Nodes(FilterTables(schema.tables, q), schema.foreignKeys)
    /\ links' = Links(FilterTables(schema.tables, q), schema.foreignKeys)
    /\ effectDue' = TRUE
    /\ UNCHANGED <<schema, positions, settled, animRef, sims>>
    /\ UNCHANGED memoVars
    /\ UNCHANGED <<flowVars, storeVars>>

\* The first render of NodeLinkView: the memo computes nodes and links, and
\* the simulation effect is due.
NodeLinkMemo ==
    /\ view = "NodeLink"
    /\ pc = "render"
    /\ nodes' = Nodes(NodeLinkTables, schema.foreignKeys)
    /\ links' = Links(NodeLinkTables, schema.foreignKeys)
    /\ effectDue' = TRUE
    /\ pc' = "mounted"
    /\ UNCHANGED <<schema, searchQuery, positions, settled, animRef, sims>>
    /\ UNCHANGED <<view, fkIdx, levels, placed, parent, lanes, matrix, connectionDetails,
                   parentMap, treeData, groups, tableStats>>
    /\ UNCHANGED <<flowVars, storeVars>>

(***************************************************************************)
(* Force-Directed Layout Engine: properties                                *)
(***************************************************************************)
\* The closure of the effect that ran last.
Newest == sims[Len(sims)]

\* C14: once an effect has been cleaned up no callback of it is pending, so
\* no step of it can run or publish; and as soon as the newest run has made
\* a step the published positions are those of the newest run.
C14_NoStepAfterCancel ==
    view = "NodeLink" =>
        /\ \A i \in DOMAIN sims : sims[i].cleanedUp => ~sims[i].frame
        /\ (sims # <<>> /\ Newest.steps > 0) => positions = Positions(Newest.nodeMap)

\* A run over three tables was cancelled with its callback pending; the run
\* started in its place, over two tables, has made steps.
C14_Witness ==
    /\ view = "NodeLink"
    /\ ~effectDue
    /\ Len(sims) = 1
    /\ Newest.afterCancel
    /\ Newest.steps > 1
    /\ Len(Newest.nodeMap) = 2
    /\ DOMAIN positions = {Newest.nodeMap[k].id : k \in DOMAIN Newest.nodeMap}

\* C15: a run never makes more than 150 steps; a run that was not cancelled
\* and has no callback pending has made exactly 150 steps and the view is
\* settled; while a callback of it is pending it has made fewer than 150
\* steps and the view is not settled.
C15_ExactlyMaxIterationsSteps ==
    view = "NodeLink" =>
        \A i \in DOMAIN sims :
            /\ sims[i].steps <= maxIterations
            /\ (~sims[i].cleanedUp /\ ~sims[i].frame)
                   => (sims[i].steps = maxIterations /\ settled)
            /\ (~sims[i].cleanedUp /\ sims[i].frame)
                   => (sims[i].steps < maxIterations /\ ~settled)

\* A run over three linked tables has made its 150 steps and is settled.
C15_Witness ==
    /\ view = "NodeLink"
    /\ settled
    /\ Len(sims) = 1
    /\ Newest.steps = maxIterations
    /\ Len(Newest.nodeMap) = 3
    /\ Len(Newest.links) > 0

\* A run over no table at all has made its 150 steps and is settled.
C15_WitnessEmpty ==
    /\ view = "NodeLink"
    /\ settled
    /\ Len(sims) = 1
    /\ Newest.steps = maxIterations
    /\ Newest.nodeMap = <<>>

\* Sum of a sequence of force vectors.
RECURSIVE VecSum(_)
VecSum(fs) ==
    IF fs = <<>> THEN [fx |-> 0, fy |-> 0]
    ELSE LET rest == VecSum(Tail(fs))
         IN  [fx |-> Head(fs).fx + rest.fx, fy |-> Head(fs).fy + rest.fy]

NoForce == [fx |-> 0, fy |-> 0]

Negated(f) == [fx |-> -f.fx, fy |-> -f.fy]

\* The force on node k, every term computed from the positions in ns: the
\* repulsion of each other node, the spring of each link ending at k, and
\* the pull to the origin.
ForceOn(ns, ls, k) ==
    LET repulsion ==
            [j \in DOMAIN ns |->
                IF j = k THEN NoForce
                ELSE IF j > k
                     THEN Negated(RepulsionForce(ns[j].x - ns[k].x, ns[j].y - ns[k].y))
                     ELSE RepulsionForce(ns[k].x - ns[j].x, ns[k].y - ns[j].y)]
        spring ==
            [m \in DOMAIN ls |->
                LET s == NodeIndex(ns, ls[m].source)
                    t == NodeIndex(ns, ls[m].target)
                    f == SpringForce(ns[t].x - ns[s].x, ns[t].y - ns[s].y)
                IN  VecSum(<<IF s = k THEN f ELSE NoForce,
                             IF t = k THEN Negated(f) ELSE NoForce>>)]
        pull == [fx |-> -Quot(ns[k].x, 1000), fy |-> -Quot(ns[k].y, 1000)]
    IN  VecSum(<<VecSum(repulsion), VecSum(spring), pull>>)

\* One step in which every force is taken from the positions before the
\* step, and every node is then moved by its damped velocity.
StepFromPreviousPositions(ns, ls) ==
    [k \in DOMAIN ns |->
        LET f == ForceOn(ns, ls, k)
            vx == Quot((ns[k].vx + f.fx) * 82, 100)
            vy == Quot((ns[k].vy + f.fy) * 82, 100)
        IN  [ns[k] EXCEPT !.vx = vx, !.vy = vy, !.x = @ + vx, !.y = @ + vy]]

\* C16: every step of a run leaves each node where the forces computed from
\* the positions before the step put it, and publishes exactly the positions
\* of the nodes after all of them were moved.
C16_ForcesFromPreviousPositions ==
    [][view = "NodeLink" =>
          \A i \in DOMAIN sims :
              (i \in DOMAIN sims' /\ sims'[i].steps = sims[i].steps + 1) =>
                  /\ sims'[i].nodeMap = StepFromPreviousPositions(sims[i].nodeMap, sims[i].links)
                  /\ positions' = Positions(sims'[i].nodeMap)]_vars

\* A run over three tables and a link between two of them has made steps
\* that moved every node away from its initial place.
C16_Witness ==
    /\ view = "NodeLink"
    /\ Len(sims) = 1
    /\ Newest.steps > 2
    /\ Len(Newest.nodeMap) = 3
    /\ \E m \in DOMAIN Newest.links : Newest.links[m].source # Newest.links[m].target
    /\ \A k \in DOMAIN Newest.nodeMap :
           \/ Newest.nodeMap[k].x # InitialPosition(k - 1).x
           \/ Newest.nodeMap[k].y # InitialPosition(k - 1).y

\* C27: the published position map is empty or holds a position for exactly
\* the nodes of the current memo; positions of an earlier node set never
\* stand beside a new node set.
C27_PositionsOfCurrentNodes ==
    view = "NodeLink" =>
        \/ positions = <<>>
        \/ DOMAIN positions = {nodes[k].id : k \in DOMAIN nodes}

\* The link endpoints at a node: one for each link it is the source of and
\* one for each link it is the target of.
LinkEndpoints(id) ==
    Cardinality({l \in DOMAIN links : links[l].source = id})
      + Cardinality({l \in DOMAIN links : links[l].target = id})

\* C28: the connection count of every node equals the number of link
\* endpoints at it in the link list built by the same memo.
C28_ConnectionsAreLinkEndpoints ==
    view = "NodeLink" =>
        \A k \in DOMAIN nodes : nodes[k].connections = LinkEndpoints(nodes[k].id)

\* The place the i-th sorted table (i counted from 0) has when every ring
\* takes six tables, the first at the top and the others 60 degrees apart.
TopStartPosition(i) ==
    IF i = 0 THEN [x |-> 0, y |-> 0]
    ELSE LET ring == (i + 5) \div 6
             slot == (i - 1) % 6
             angle == slot * 2 + 9
             radius == ring * 280
         IN  [x |-> RoundDiv(Cos(angle) * radius, 1000),
              y |-> RoundDiv(Sin(angle) * radius, 1000)]

\* The position of a node's table in the filtered table list.
NodeLinkIndex(n) == CHOOSE i \in DOMAIN NodeLinkTables : NodeLinkTables[i].name = n

\* C25: the nodes stand in descending order of connection count, ties in
\* filtered table order; the first is at the origin; the node at order index
\* i >= 1 is on ring ceil(i / 6), six to a ring, the first of every ring at
\* the top and the others evenly spaced after it.
C25_RingPlacement ==
    (view = "NodeLink" /\ pc = "mounted") =>
        /\ \A j, k \in DOMAIN nodes :
               j < k =>
                   \/ nodes[j].connections > nodes[k].connections
                   \/ /\ nodes[j].connections = nodes[k].connections
                      /\ NodeLinkIndex(nodes[j].id) < NodeLinkIndex(nodes[k].id)
        /\ \A k \in DOMAIN nodes :
               /\ nodes[k].x = TopStartPosition(k - 1).x
               /\ nodes[k].y = TopStartPosition(k - 1).y
               /\ nodes[k].vx = 0
               /\ nodes[k].vy = 0

(***************************************************************************)
(* Empty input                                                             *)
(***************************************************************************)
\* No table of the schema passes the search filter.
NothingRemains == FilterTables(schema.tables, searchQuery) = <<>>

C18_WitnessMatrix ==
    /\ NothingRemains
    /\ view = "Correlation"
    /\ pc = "done"
    /\ Len(schema.foreignKeys) = 2
    /\ matrix = <<>>
    /\ tableStats = <<>>

\* The force layout has spent its step budget on no node and is settled.
C18_WitnessForce ==
    /\ NothingRemains
    /\ view = "NodeLink"
    /\ settled
    /\ Len(sims) = 1
    /\ Newest.steps = maxIterations
    /\ positions = <<>>

\* No NodeLinkView is mounted.
ForceUnmounted ==
    /\ nodes = <<>>
    /\ links = <<>>
    /\ positions = <<>>
    /\ settled = FALSE
    /\ animRef = 0
    /\ sims = <<>>
    /\ effectDue = FALSE

\* No SchemaFlow is mounted.
FlowUnmounted ==
    /\ selectedDrillTable = Null
    /\ initialNodes = <<>>
    /\ initialEdges = <<>>
    /\ graph = [nodes |-> <<>>, edges |-> <<>>]

\* useState<ConnectionState>({ connections: [], activeConnectionId: null, ... })
InitialState ==
    [connections |-> <<>>, activeConnectionId |-> "null", schema |-> "null",
     isConnected |-> FALSE, isLoading |-> FALSE, error |-> "null", passphrase |-> "null"]

\* The connection store is not followed: no handler is suspended.
StoreUnmounted ==
    /\ state = InitialState
    /\ pending = <<>>

(***************************************************************************)
(* Layered layout: SchemaFlow and getLayoutedElements                      *)
(*                                                                         *)
(* dagre is a library: graph records the setNode and setEdge calls made on *)
(* g, and the coordinates dagre.layout writes are not followed.            *)
(***************************************************************************)
nodeWidth == 280

nodeHeight == 200

FLOW_VIEWS == {"er-diagram", "uml", "relationship-drill"}

\* related.add(...) for every foreign key with one end in S.
WithNeighbours(fks, S) ==
    S \union {fks[k].targetTable : k \in {i \in DOMAIN fks : fks[i].sourceTable \in S}}
      \union {fks[k].sourceTable : k \in {i \in DOMAIN fks : fks[i].targetTable \in S}}

\* The selected table, its neighbours, and the neighbours of those.
Related(fks, sel) == WithNeighbours(fks, WithNeighbours(fks, {sel}))

Drilling(mode, sel) == mode = "relationship-drill" /\ sel # Null

\* let filteredTables = tables; under a drill selection
\* schema.tables.filter(t => related.has(t.name))
FlowTables(sch, mode, q, sel) ==
    IF Drilling(mode, sel)
    THEN LET related == Related(sch.foreignKeys, sel)
             has(t) == t.name \in related
         IN  SelectSeq(sch.tables, has)
    ELSE FilterTables(sch.tables, q)

\* let filteredFKs = schema.foreignKeys; under a drill selection the keys
\* with both ends in related
FlowForeignKeys(sch, mode, q, sel) ==
    IF Drilling(mode, sel)
    THEN LET related == Related(sch.foreignKeys, sel)
             has(fk) == fk.sourceTable \in related /\ fk.targetTable \in related
         IN  SelectSeq(sch.foreignKeys, has)
    ELSE sch.foreignKeys

\* filteredTables.map(table => ({ id: table.name, data: { columnCount, isCenter } }))
FlowNodes(ts, mode, sel) ==
    [k \in DOMAIN ts |->
        [id |-> ts[k].name, columnCount |-> Len(ts[k].columns),
         isCenter |-> (mode = "relationship-drill" /\ sel = ts[k].name)]]

\* filteredFKs.map(fk => ({ id: fk.constraintName, source, target }))
FlowEdges(fks) ==
    [k \in DOMAIN fks |->
        [id |-> fks[k].sourceTable \o <<"_">> \o fks[k].sourceColumn
                   \o <<"_", "f", "k", "e", "y">>,
         source |-> fks[k].sourceTable, target |-> fks[k].targetTable]]

\* node.data?.columnCount ? 60 + columnCount * 28 : nodeHeight
LayoutHeight(columnCount) ==
    IF columnCount # 0 THEN 60 + columnCount * 28 ELSE nodeHeight

\* g.setNode(node.id, { width, height }) for every node, then
\* g.setEdge(edge.source, edge.target) for every edge.
LayoutGraph(ns, es) ==
    [nodes |-> [id \in {ns[k].id : k \in DOMAIN ns} |->
                   LET k == CHOOSE j \in DOMAIN ns :
                                /\ ns[j].id = id
                                /\ \A l \in DOMAIN ns : ns[l].id = id => l <= j
                   IN  [width |-> nodeWidth, height |-> LayoutHeight(ns[k].columnCount)]],
     edges |-> [k \in DOMAIN es |-> [v |-> es[k].source, w |-> es[k].target]]]

\* The useMemo of SchemaFlow: nodes and edges built and handed to
\* getLayoutedElements, which returns them (positions aside) as
\* initialNodes and initialEdges.
FlowMemo(mode, q, sel) ==
    LET ns == FlowNodes(FlowTables(schema, mode, q, sel), mode, sel)
        es == FlowEdges(FlowForeignKeys(schema, mode, q, sel))
    IN  /\ initialNodes' = ns
        /\ initialEdges' = es
        /\ graph' = LayoutGraph(ns, es)

\* onClick={() => setViewMode(view.id)} between the React Flow views.
setViewMode(mode) ==
    /\ view \in FLOW_VIEWS
    /\ mode \in FLOW_VIEWS
    /\ view' = mode
    /\ FlowMemo(mode, searchQuery, selectedDrillTable)
    /\ UNCHANGED <<schema, searchQuery, selectedDrillTable>>
    /\ UNCHANGED <<pc, fkIdx, levels, placed, parent, lanes, matrix, connectionDetails,
                   parentMap, treeData, groups, tableStats>>
    /\ UNCHANGED <<forceVars, storeVars>>

\* onChange={e => setSearchQuery(e.target.value)} while a React Flow view shows.
FlowSetSearchQuery(q) ==
    /\ view \in FLOW_VIEWS
    /\ searchQuery' = q
    /\ FlowMemo(view, q, selectedDrillTable)
    /\ UNCHANGED <<schema, selectedDrillTable>>
    /\ UNCHANGED <<memoVars, forceVars, storeVars>>

\* if (viewMode === "relationship-drill") setSelectedDrillTable(node.id)
onNodeClick(id) ==
    /\ view \in FLOW_VIEWS
    /\ \E k \in DOMAIN initialNodes : initialNodes[k].id = id
    /\ selectedDrillTable' = IF view = "relationship-drill" THEN id ELSE selectedDrillTable
    /\ FlowMemo(view, searchQuery, selectedDrillTable')
    /\ UNCHANGED <<schema, searchQuery>>
    /\ UNCHANGED <<memoVars, forceVars, storeVars>>

(***************************************************************************)
(* Layered layout: properties                                              *)
(***************************************************************************)
FlowNodeIds == {initialNodes[k].id : k \in DOMAIN initialNodes}

\* C21: the height handed to the layout for a node is 60 + 28 * columns for
\* every column count from 0 up, so of two nodes the one with fewer columns
\* is strictly shorter.
C21_HeightLinearInColumns ==
    /\ \A k \in DOMAIN initialNodes :
           graph.nodes[initialNodes[k].id].height = 60 + 28 * initialNodes[k].columnCount
    /\ \A j, k \in DOMAIN initialNodes :
           initialNodes[j].columnCount < initialNodes[k].columnCount
               => graph.nodes[initialNodes[j].id].height < graph.nodes[initialNodes[k].id].height

\* C30: every edge handed to the layered layout has its source and its
\* target among the nodes handed over in the same call.
C30_EdgesAmongNodes ==
    view \in FLOW_VIEWS =>
        \A k \in DOMAIN initialEdges :
            /\ initialEdges[k].source \in FlowNodeIds
            /\ initialEdges[k].target \in FlowNodeIds

(***************************************************************************)
(* Connection store: useConnectionStore and the handlers of Index          *)
(*                                                                         *)
(* A connection is its id; a fetched schema is a token, the store never    *)
(* looks inside it. A handler suspended at an await is an entry of         *)
(* pending, with the values its closure captured before the await.         *)
(***************************************************************************)
null == "null"

\* The connection list is on screen: the list of ConnectionScreen, or the
\* sidebar of SchemaLayout when Index renders it.
ShowsSchemaLayout ==
    /\ state.isConnected
    /\ state.schema # null
    /\ state.activeConnectionId # null
    /\ \E k \in DOMAIN state.connections : state.connections[k] = state.activeConnectionId

\* The connections with a connect (or switch) button and a remove button.
Listed ==
    IF ShowsSchemaLayout
    THEN Range(state.connections) \ {state.activeConnectionId}
    ELSE Range(state.connections)

\* state.connections.filter(c => c.id !== id)
WithoutConnection(cs, id) == LET other(c) == c # id IN SelectSeq(cs, other)

\* pending without its i-th entry.
Resumed(i) == SubSeq(pending, 1, i - 1) \o SubSeq(pending, i + 1, Len(pending))

\* handleConnect up to await fetchSchema(client).
handleConnect(id) ==
    /\ view = "Connections"
    /\ Len(pending) < MaxPending
    /\ id \in Listed
    /\ ShowsSchemaLayout \/ ~state.isLoading
    /\ state' = [state EXCEPT !.isLoading = TRUE, !.error = null]
    /\ pending' = Append(pending, [op |-> "handleConnect", id |-> id, updated |-> <<>>])
    /\ UNCHANGED <<schema, searchQuery>>
    /\ UNCHANGED <<memoVars, forceVars, flowVars>>

\* fetchSchema resolved: store.setSchema(schema); store.setActiveConnection(id);
\* finally store.setLoading(false).
FetchSchemaResolved(i, fetched) ==
    /\ view = "Connections"
    /\ pending[i].op = "handleConnect"
    /\ state' = [state EXCEPT !.schema = fetched, !.isConnected = TRUE,
                              !.activeConnectionId = pending[i].id, !.isLoading = FALSE]
    /\ pending' = Resumed(i)
    /\ UNCHANGED <<schema, searchQuery>>
    /\ UNCHANGED <<memoVars, forceVars, flowVars>>

\* fetchSchema threw: store.setError(...); finally store.setLoading(false).
FetchSchemaRejected(i) ==
    /\ view = "Connections"
    /\ pending[i].op = "handleConnect"
    /\ state' = [state EXCEPT !.error = "Connection failed", !.isLoading = FALSE]
    /\ pending' = Resumed(i)
    /\ UNCHANGED <<schema, searchQuery>>
    /\ UNCHANGED <<memoVars, forceVars, flowVars>>

\* removeConnection up to await saveConnections(updated, state.passphrase).
removeConnection(id) ==
    /\ view = "Connections"
    /\ Len(pending) < MaxPending
    /\ id \in Listed
    /\ pending' = IF state.passphrase = null THEN pending
                  ELSE Append(pending, [op |-> "removeConnection", id |-> id,
                                        updated |-> WithoutConnection(state.connections, id)])
    /\ UNCHANGED state
    /\ UNCHANGED <<schema, searchQuery>>
    /\ UNCHANGED <<memoVars, forceVars, flowVars>>

\* saveConnections resolved: the setState of removeConnection.
SaveConnectionsResolved(i) ==
    /\ view = "Connections"
    /\ pending[i].op = "removeConnection"
    /\ LET removesActive == state.activeConnectionId = pending[i].id
       IN  state' = [state EXCEPT
                        !.connections = pending[i].updated,
                        !.activeConnectionId = IF removesActive THEN null ELSE @,
                        !.isConnected = IF removesActive THEN FALSE ELSE @,
                        !.schema = IF removesActive THEN null ELSE @]
    /\ pending' = Resumed(i)
    /\ UNCHANGED <<schema, searchQuery>>
    /\ UNCHANGED <<memoVars, forceVars, flowVars>>

\* store.setSchema(null); store.setActiveConnection(null)
handleDisconnect ==
    /\ view = "Connections"
    /\ ShowsSchemaLayout
    /\ state' = [state EXCEPT !.schema = null, !.isConnected = FALSE,
                              !.activeConnectionId = null]
    /\ UNCHANGED pending
    /\ UNCHANGED <<schema, searchQuery>>
    /\ UNCHANGED <<memoVars, forceVars, flowVars>>

\* The Clear All button of the connection list.
clearAll ==
    /\ view = "Connections"
    /\ ~ShowsSchemaLayout
    /\ state' = InitialState
    /\ UNCHANGED pending
    /\ UNCHANGED <<schema, searchQuery>>
    /\ UNCHANGED <<memoVars, forceVars, flowVars>>

(***************************************************************************)
(* Connection store: properties                                            *)
(***************************************************************************)
\* C26: in every reachable state a non-null activeConnectionId is the id of
\* a connection of the connections list, however an in-flight connect
\* interleaves with removeConnection.
C26_ActiveConnectionIsListed ==
    view = "Connections" =>
        (state.activeConnectionId # null =>
            \E k \in DOMAIN state.connections :
                state.connections[k] = state.activeConnectionId)

(***************************************************************************)
(* Specifications                                                          *)
(***************************************************************************)
InitLevels ==
    /\ schema \in parseOpenApiSpec
    /\ searchQuery \in Queries
    /\ view \in LevelViews
    /\ pc = "levels"
    /\ fkIdx = 1
    /\ levels = <<>>
    /\ placed = {}
    /\ parent = <<>>
    /\ lanes = <<>>
    /\ matrix = <<>>
    /\ connectionDetails = <<>>
    /\ parentMap = <<>>
    /\ treeData = [isNull |-> TRUE, nodes |-> <<>>]
    /\ groups = <<>>
    /\ tableStats = <<>>
    /\ ForceUnmounted
    /\ FlowUnmounted
    /\ StoreUnmounted

NextLevels == LevelStep \/ LevelsReturn

SpecLevels == InitLevels /\ [][NextLevels]_vars

InitLanes ==
    /\ schema \in parseOpenApiSpec
    /\ searchQuery \in Queries
    /\ view = "Swimlane"
    /\ pc = "union"
    /\ fkIdx = 1
    /\ levels = <<>>
    /\ placed = {}
    /\ parent = InitParent(FilterTables(schema.tables, searchQuery))
    /\ lanes = <<>>
    /\ matrix = <<>>
    /\ connectionDetails = <<>>
    /\ parentMap = <<>>
    /\ treeData = [isNull |-> TRUE, nodes |-> <<>>]
    /\ groups = <<>>
    /\ tableStats = <<>>
    /\ ForceUnmounted
    /\ FlowUnmounted
    /\ StoreUnmounted

NextLanes == UnionStep \/ LanesReturn

SpecLanes == InitLanes /\ [][NextLanes]_vars

InitMatrixView ==
    /\ schema \in parseOpenApiSpec
    /\ searchQuery \in Queries
    /\ view = "Correlation"
    /\ pc = "matrix"
    /\ fkIdx = 1
    /\ levels = <<>>
    /\ placed = {}
    /\ parent = <<>>
    /\ lanes = <<>>
    /\ matrix = InitMatrix(LET keep(t) == MatchesName(t, searchQuery)
                           IN  SelectSeq(schema.tables, keep))
    /\ connectionDetails = <<>>
    /\ parentMap = <<>>
    /\ treeData = [isNull |-> TRUE, nodes |-> <<>>]
    /\ groups = <<>>
    /\ tableStats = <<>>
    /\ ForceUnmounted
    /\ FlowUnmounted
    /\ StoreUnmounted

NextMatrix == MatrixStep \/ MatrixReturn \/ TableStatsReturn

SpecMatrix == InitMatrixView /\ [][NextMatrix]_vars

InitHierarchy ==
    /\ schema \in parseOpenApiSpec
    /\ searchQuery \in Queries
    /\ view = "Hierarchy"
    /\ pc = "parentMap"
    /\ fkIdx = 1
    /\ levels = <<>>
    /\ placed = {}
    /\ parent = <<>>
    /\ lanes = <<>>
    /\ matrix = <<>>
    /\ connectionDetails = <<>>
    /\ parentMap = <<>>
    /\ treeData = [isNull |-> TRUE, nodes |-> <<>>]
    /\ groups = <<>>
    /\ tableStats = <<>>
    /\ ForceUnmounted
    /\ FlowUnmounted
    /\ StoreUnmounted

NextHierarchy == ParentMapStep \/ TreeDataReturn

SpecHierarchy == InitHierarchy /\ [][NextHierarchy]_vars

InitGrouped ==
    /\ schema \in parseOpenApiSpec
    /\ searchQuery \in Queries
    /\ view = "Grouped"
    /\ pc = "union"
    /\ fkIdx = 1
    /\ levels = <<>>
    /\ placed = {}
    /\ parent = InitParent(schema.tables)
    /\ lanes = <<>>
    /\ matrix = <<>>
    /\ connectionDetails = <<>>
    /\ parentMap = <<>>
    /\ treeData = [isNull |-> TRUE, nodes |-> <<>>]
    /\ groups = <<>>
    /\ tableStats = <<>>
    /\ ForceUnmounted
    /\ FlowUnmounted
    /\ StoreUnmounted

NextGrouped == GroupedUnionStep \/ GroupsReturn

SpecGrouped == InitGrouped /\ [][NextGrouped]_vars

\* The schemas the force layout is run on: every table of the catalogue and
\* at most MaxLinks foreign keys, each from column x of a table to a table
\* of the schema (the layout reads only the two table names of a foreign key).
ForceForeignKeys ==
    {fk \in ForeignKeysOf(SortedTables(Catalogue)) :
        fk.sourceColumn = <<"x">> /\ fk.targetTable \in TableNames}

ForceSchemas ==
    {s \in [tables : {SortedTables(Catalogue)},
            foreignKeys : UNION { [1..n -> ForceForeignKeys] : n \in 0..MaxLinks }] :
        ParsedOrder(s.foreignKeys)}
    \union { [tables |-> <<>>, foreignKeys |-> <<>>] }

\* The search box contents of the force layout: nothing, or a query that
\* keeps two of the three tables.
ForceQueries == { <<>>, <<"b">> }

InitForce ==
    /\ schema \in ForceSchemas
    /\ searchQuery \in ForceQueries
    /\ view = "NodeLink"
    /\ pc = "mounted"
    /\ fkIdx = 1
    /\ levels = <<>>
    /\ placed = {}
    /\ parent = <<>>
    /\ lanes = <<>>
    /\ matrix = <<>>
    /\ connectionDetails = <<>>
    /\ parentMap = <<>>
    /\ treeData = [isNull |-> TRUE, nodes |-> <<>>]
    /\ groups = <<>>
    /\ tableStats = <<>>
    /\ nodes = Nodes(NodeLinkTables, schema.foreignKeys)
    /\ links = Links(NodeLinkTables, schema.foreignKeys)
    /\ positions = <<>>
    /\ settled = FALSE
    /\ animRef = 0
    /\ sims = <<>>
    /\ effectDue = TRUE
    /\ FlowUnmounted
    /\ StoreUnmounted

NextForce ==
    \/ RunEffect
    \/ \E i \in DOMAIN sims : Frame(i)
    \/ \E q \in ForceQueries : SetSearchQuery(q)

SpecForce == InitForce /\ [][NextForce]_vars

\* The schemas whose initial placement is computed: up to MaxTables tables
\* of one column x, in name order, and at most MaxLinks foreign keys between
\* them.
PlacementNames == <<"a", "A", "b", "B", "d", "i", "o", "r", "t">>

PlacementTables(n) ==
    [k \in 1..n |-> [name |-> <<PlacementNames[k]>>, columns |-> << <<"x">> >>]]

PlacementForeignKeys(n) ==
    { [sourceTable |-> s, sourceColumn |-> <<"x">>,
       targetTable |-> t, targetColumn |-> <<"i", "d">>] :
          s \in NameSet(PlacementTables(n)), t \in NameSet(PlacementTables(n)) }

PlacementSchemas ==
    UNION { {s \in [tables : {PlacementTables(n)},
                    foreignKeys : UNION { [1..m -> PlacementForeignKeys(n)] :
                                          m \in 0..MaxLinks }] :
                ParsedOrder(s.foreignKeys)} : n \in 0..MaxTables }

InitPlacement ==
    /\ schema \in PlacementSchemas
    /\ searchQuery \in ForceQueries
    /\ view = "NodeLink"
    /\ pc = "render"
    /\ fkIdx = 1
    /\ levels = <<>>
    /\ placed = {}
    /\ parent = <<>>
    /\ lanes = <<>>
    /\ matrix = <<>>
    /\ connectionDetails = <<>>
    /\ parentMap = <<>>
    /\ treeData = [isNull |-> TRUE, nodes |-> <<>>]
    /\ groups = <<>>
    /\ tableStats = <<>>
    /\ ForceUnmounted
    /\ FlowUnmounted
    /\ StoreUnmounted

NextPlacement == NodeLinkMemo

SpecPlacement == InitPlacement /\ [][NextPlacement]_vars

\* The schemas handed to SchemaFlow: tables of zero, one and two columns.
FlowCatalogue ==
    { [name |-> <<"a">>,           columns |-> <<>>],
      [name |-> <<"a", ":", "a">>, columns |-> << <<"b">> >>],
      [name |-> <<"b">>,           columns |-> << <<"x">>, <<"y">> >>] }

FlowSchemas ==
    UNION { { [tables |-> SortedTables(S), foreignKeys |-> fks] :
                 fks \in ForeignKeySeqs(SortedTables(S)) } : S \in SUBSET FlowCatalogue }

\* SchemaLayout starts on the ER diagram with an empty search box, and
\* SchemaFlow with no drill selection.
InitFlow ==
    /\ schema \in FlowSchemas
    /\ searchQuery = <<>>
    /\ view = "er-diagram"
    /\ pc = "shown"
    /\ fkIdx = 1
    /\ levels = <<>>
    /\ placed = {}
    /\ parent = <<>>
    /\ lanes = <<>>
    /\ matrix = <<>>
    /\ connectionDetails = <<>>
    /\ parentMap = <<>>
    /\ treeData = [isNull |-> TRUE, nodes |-> <<>>]
    /\ groups = <<>>
    /\ tableStats = <<>>
    /\ ForceUnmounted
    /\ selectedDrillTable = Null
    /\ initialNodes = FlowNodes(FlowTables(schema, view, searchQuery, Null), view, Null)
    /\ initialEdges = FlowEdges(FlowForeignKeys(schema, view, searchQuery, Null))
    /\ graph = LayoutGraph(initialNodes, initialEdges)
    /\ StoreUnmounted

NextFlow ==
    \/ \E mode \in FLOW_VIEWS : setViewMode(mode)
    \/ \E q \in Queries : FlowSetSearchQuery(q)
    \/ \E id \in TableNames : onNodeClick(id)

SpecFlow == InitFlow /\ [][NextFlow]_vars

\* The store as the connection list first shows it: the stored connections
\* loaded under a passphrase, none active, no handler running.
ConnectionIds == <<"c1", "c2">>

FetchedSchemas == {"s1", "s2"}

InitStore ==
    /\ schema = [tables |-> <<>>, foreignKeys |-> <<>>]
    /\ searchQuery = <<>>
    /\ view = "Connections"
    /\ pc = "list"
    /\ fkIdx = 1
    /\ levels = <<>>
    /\ placed = {}
    /\ parent = <<>>
    /\ lanes = <<>>
    /\ matrix = <<>>
    /\ connectionDetails = <<>>
    /\ parentMap = <<>>
    /\ treeData = [isNull |-> TRUE, nodes |-> <<>>]
    /\ groups = <<>>
    /\ tableStats = <<>>
    /\ ForceUnmounted
    /\ FlowUnmounted
    /\ \E n \in 0..Len(ConnectionIds) :
           state = [InitialState EXCEPT !.connections = SubSeq(ConnectionIds, 1, n),
                                        !.passphrase = "passphrase"]
    /\ pending = <<>>

NextStore ==
    \/ \E id \in Range(ConnectionIds) : handleConnect(id)
    \/ \E i \in DOMAIN pending : \E fetched \in FetchedSchemas : FetchSchemaResolved(i, fetched)
    \/ \E i \in DOMAIN pending : FetchSchemaRejected(i)
    \/ \E id \in Range(ConnectionIds) : removeConnection(id)
    \/ \E i \in DOMAIN pending : SaveConnectionsResolved(i)
    \/ handleDisconnect
    \/ clearAll

SpecStore == InitStore /\ [][NextStore]_vars

\* Any one of the views, mounted on a parsed schema and a query.
Init ==
    InitLevels \/ InitLanes \/ InitMatrixView \/ InitHierarchy \/ InitGrouped \/ InitForce

Next ==
    NextLevels \/ NextLanes \/ NextMatrix \/ NextHierarchy \/ NextGrouped \/ NextForce

Spec == Init /\ [][Next]_vars

\* Any one of the views, mounted on a schema and a query that leave no table.
InitEmptyInput == Init /\ NothingRemains

SpecEmptyInput == InitEmptyInput /\ [][Next]_vars

====
